---- MODULE Spec2Model ----
(***************************************************************************)
(* Verification model of the latent-variable models of the vae package:   *)
(* VQ_VAE (vq_vae_conv.py), SG_VAE (sg_vae_conv.py), AE (ae_conv.py) and   *)
(* the earlier VQ_VAE draft (vq_vae_custom.py).                            *)
(*                                                                         *)
(* Numbers are integers.  A layer of the encoder or decoder is carried by *)
(* one scalar kernel applied to every coordinate; tensors are functions   *)
(* over index ranges.  Class indices are 0-based as in the source.        *)
(***************************************************************************)
EXTENDS Integers, Sequences, FiniteSets, TLC

\* ------------------------------------------------------------------ bounds
NumEmbeddings == 3
EmbeddingSize == 2
LatentSize == 2
MaxSample == 3
MaxBatch == 2
MaxTrainSteps == 1
MaxPredict == 1
MaxSeed == 1
MaxDraw == 3
MaxSGTrainSteps == 1
MaxStream == 2
NumDistributions == 2
NumClasses == 2
Unit == 4

\* ------------------------------------------------------- generic helpers
Abs(v) == IF v < 0 THEN 0 - v ELSE v

Sign(v) == IF v > 0 THEN 1 ELSE IF v < 0 THEN 0 - 1 ELSE 0

\* the function f with every value computed once (f itself, as a value)
Materialize(f) == f @@ << >>

\* Op applied to the value of v, v being computed once
Bind(v, Op(_)) == CHOOSE y \in {Op(x) : x \in {v}} : TRUE

\* tensors of rank 1, 2 and 3 over 1-based index ranges
Tensor1(n, Op(_)) == Materialize([i \in 1 .. n |-> Op(i)])

Tensor2(m, n, Op(_, _)) ==
    Materialize([b \in 1 .. m |-> Materialize([i \in 1 .. n |-> Op(b, i)])])

Tensor3(m, n, q, Op(_, _, _)) ==
    Materialize([b \in 1 .. m |->
        Materialize([l \in 1 .. n |-> Materialize([e \in 1 .. q |-> Op(b, l, e)])])])

RECURSIVE SumTo(_, _)
\* sum of f[1] .. f[n]
SumTo(f, n) == IF n = 0 THEN 0 ELSE f[n] + SumTo(f, n - 1)

RECURSIVE Pow(_, _)
Pow(b, n) == IF n = 0 THEN 1 ELSE b * Pow(b, n - 1)

\* ------------------------------------------------------- VQ_VAE: shapes
\* the flat input has as many pixels as the decoder's output, which in the
\* model is the size of the quantized representation
FlatInputShape == LatentSize * EmbeddingSize

Classes == 0 .. (NumEmbeddings - 1)
Slots == 1 .. LatentSize
Dims == 1 .. EmbeddingSize
Pixels == 1 .. FlatInputShape

SampleIds == 0 .. (MaxSample - 1)

\* pixel i of the training image with id s (grey levels 0 and 1)
Pixel(s, i) == ((s + i) % 3) % 2

\* the data set: the images in order of their ids
Dataset == [n \in 1 .. MaxSample |-> n - 1]

\* inputs[lo:hi] with numpy's clipping of the upper end (0-based, hi exclusive)
Slice(inputs, lo, hi) ==
    LET top == IF hi < Len(inputs) THEN hi ELSE Len(inputs)
    IN  IF lo >= top THEN << >> ELSE [i \in 1 .. (top - lo) |-> inputs[lo + i]]

\* the batch a training loop passes to its step-th train call when it cuts the
\* data set into batches of batch_size images:
\* train_data[epoch_step * batch_size : (epoch_step + 1) * batch_size]
EpochBatch(step, batch_size) ==
    LET epoch_size == Len(Dataset) \div batch_size
        epoch_step == step % epoch_size
    IN  Slice(Dataset, epoch_step * batch_size, (epoch_step + 1) * batch_size)

\* the largest num_training_steps of a training script
MaxLoopSteps == 6

\* the batch sizes a train call is explored with
BatchSizes == {n \in 1 .. MaxBatch : n <= Len(Dataset)}

\* ------------------------------------------------- VQ_VAE: nonlinearities
Relu(v) == IF v > 0 THEN v ELSE 0

\* tf.nn.sigmoid on the integer grid of grey levels
Sigmoid(v) == IF v > 0 THEN 1 ELSE 0

\* ------------------------------------------------------ VQ_VAE: the layers
LossTypes == {"SIGMOID_CROSS_ENTROPY", "L2", "L2_WITH_SIGMOID"}

\* the encoder's layers in construction order; every one has a ReLU
EncoderLayers(c) ==
    Tensor1(Len(c.encoder_filters),
            LAMBDA j : [scope |-> "encoder", kind |-> "conv", idx |-> j, relu |-> TRUE])
    \o Tensor1(Len(c.encoder_neurons),
               LAMBDA j : [scope |-> "encoder", kind |-> "fc", idx |-> j, relu |-> TRUE])
    \o << [scope |-> "encoder", kind |-> "final_fc", idx |-> 1, relu |-> TRUE] >>

\* the decoder's layers: dense layers with ReLU, then transposed
\* convolutions of which the last has no activation
DecoderLayers(c) ==
    Tensor1(Len(c.decoder_neurons),
            LAMBDA j : [scope |-> "decoder", kind |-> "fc", idx |-> j, relu |-> TRUE])
    \o Tensor1(Len(c.decoder_filters),
               LAMBDA j : [scope |-> "decoder", kind |-> "conv", idx |-> j,
                           relu |-> (j - 1 # Len(c.decoder_filters) - 1)])

RECURSIVE Through(_, _, _, _)
\* value of one coordinate after the first j layers with kernels ws
Through(layers, ws, v, j) ==
    IF j = 0 THEN v
    ELSE LET pre == ws[j] * Through(layers, ws, v, j - 1)
         IN  IF layers[j].relu THEN Relu(pre) ELSE pre

\* ------------------------------------------------- VQ_VAE: forward graph
\* build_encoder: pred_embeds before the reshape, one row per sample
build_encoder(c, w, batch) ==
    LET layers == EncoderLayers(c)
    IN  Tensor2(Len(batch), FlatInputShape,
                LAMBDA b, i : Through(layers, w, Pixel(batch[b], i), Len(layers)))

\* tf.reshape(pred_embeds, (-1, latent_size, embedding_size))
ReshapePred(flat) ==
    Tensor3(Len(flat), LatentSize, EmbeddingSize,
            LAMBDA b, l, e : flat[b][(l - 1) * EmbeddingSize + e])

embedding_difference(predictions, actual) ==
    Tensor2(Len(predictions), LatentSize,
            LAMBDA b, l : Materialize([k \in Classes |->
                              Tensor1(EmbeddingSize, LAMBDA e : predictions[b][l][e] - actual[k][e])]))

\* tf.norm over the last axis, carried as its square: the square root is
\* strictly increasing, so order and ties of the norms are those of the squares
Norm(v) == SumTo(Tensor1(EmbeddingSize, LAMBDA e : v[e] * v[e]), EmbeddingSize)

RECURSIVE ArgMinLast(_, _)
\* an arg-min in which a later index also wins on equality
ArgMinLast(row, n) ==
    IF n = 0 THEN 0
    ELSE LET best == ArgMinLast(row, n - 1)
         IN  IF row[n] <= row[best] THEN n ELSE best

RECURSIVE ArgMinUpTo(_, _)
\* tf.argmin scanning indices 0..n: a later index wins only when strictly smaller
ArgMinUpTo(row, n) ==
    IF n = 0 THEN 0
    ELSE LET best == ArgMinUpTo(row, n - 1)
         IN  IF row[n] < row[best] THEN n ELSE best

ArgMin(row) == ArgMinUpTo(row, Cardinality(DOMAIN row) - 1)

\* build_middle: diff, norm and classes for a batch of predicted embeddings
MiddleNorm(pred, emb) ==
    LET diff == embedding_difference(pred, emb)
    IN  Tensor2(Len(pred), LatentSize,
                LAMBDA b, l : Materialize([k \in Classes |-> Norm(diff[b][l][k])]))

MiddleClasses(pred, emb) ==
    LET norm == MiddleNorm(pred, emb)
    IN  Tensor2(Len(pred), LatentSize, LAMBDA b, l : ArgMin(norm[b][l]))

\* tf.gather(embeds, classes); an index outside the codebook yields a row of
\* zeros (the GPU kernel's result; the CPU kernel raises an error instead)
Gather(emb, cls) ==
    Tensor2(Len(cls), LatentSize, LAMBDA b, l :
        IF cls[b][l] \in DOMAIN emb THEN emb[cls[b][l]]
        ELSE Tensor1(EmbeddingSize, LAMBDA e : 0))

FlatCollected(collected) ==
    Tensor2(Len(collected), FlatInputShape,
            LAMBDA b, i : collected[b][((i - 1) \div EmbeddingSize) + 1][((i - 1) % EmbeddingSize) + 1])

\* build_decoder: (logits_t, output_t) for a batch of flat decoder inputs
build_decoder(c, w, flat) ==
    LET layers == DecoderLayers(c)
        x == Tensor2(Len(flat), FlatInputShape,
                     LAMBDA b, i : Through(layers, w, flat[b][i], Len(layers)))
        sig == Tensor2(Len(flat), FlatInputShape, LAMBDA b, i : Sigmoid(x[b][i]))
    IN  IF c.loss_type = "SIGMOID_CROSS_ENTROPY" THEN [logits |-> x, output |-> sig]
        ELSE IF c.loss_type = "L2" THEN [logits |-> x, output |-> x]
        ELSE [logits |-> sig, output |-> sig]

\* ---------------------------------------------------- VQ_VAE: the losses
\* reduce_mean of n numbers whose sum is total (integer quotient)
Mean(total, n) == total \div n

\* sum of the entries m[b][i], b in 1..B, i in 1..n
Sum2(m, B, n) == SumTo(Tensor1(B, LAMBDA b : SumTo(m[b], n)), B)

\* log(1 + exp(-a)) for a >= 0 rounded to the integer grid
Log1pExpNeg(a) == IF a = 0 THEN 1 ELSE 0

\* tf.losses.sigmoid_cross_entropy, one element: max(v,0) - v*z + log(1+exp(-|v|))
SigmoidCrossEntropy(z, v) == Relu(v) - v * z + Log1pExpNeg(Abs(v))

\* full_output_loss_t: per sample, the mean over the pixels
FullOutputLoss(c, batch, logits) ==
    Tensor1(Len(batch), LAMBDA b :
        Mean(SumTo(Tensor1(FlatInputShape, LAMBDA i :
                      IF c.loss_type = "SIGMOID_CROSS_ENTROPY"
                      THEN SigmoidCrossEntropy(Pixel(batch[b], i), logits[b][i])
                      ELSE (Pixel(batch[b], i) - logits[b][i]) * (Pixel(batch[b], i) - logits[b][i])),
                   FlatInputShape),
             FlatInputShape))

OutputLoss(c, batch, logits) ==
    Mean(SumTo(FullOutputLoss(c, batch, logits), Len(batch)), Len(batch))

\* tf.norm(a - b, axis=2) ** 2 averaged over samples and slots; the forward
\* value is the same for left_loss_t and right_loss_t (stop_gradient is the
\* identity on values)
CommitLoss(pred, collected) ==
    LET B == Len(pred)
        sq == Tensor2(B, LatentSize, LAMBDA b, l :
                 Norm(Tensor1(EmbeddingSize, LAMBDA e : pred[b][l][e] - collected[b][l][e])))
    IN  Mean(Sum2(sq, B, LatentSize), B * LatentSize)

\* utils.get_weight_regularizer(weight_decay) applied to one kernel: the L2
\* penalty weight_decay * w^2 / 2; a zero decay registers no penalty
WeightRegularizer(decay, w) == (decay * w * w) \div 2

\* tf.get_collection(REGULARIZATION_LOSSES): one term per regularized kernel
RegLosses(c, ew, dw) ==
    IF c.weight_decay = 0 THEN << >>
    ELSE Tensor1(Len(ew), LAMBDA j : WeightRegularizer(c.weight_decay, ew[j]))
         \o Tensor1(Len(dw), LAMBDA j : WeightRegularizer(c.weight_decay, dw[j]))

RegLoss(c, ew, dw) ==
    LET reg_losses == RegLosses(c, ew, dw)
    IN  IF Len(reg_losses) > 0 THEN SumTo(reg_losses, Len(reg_losses)) ELSE 0

\* a total that leaves out the weight of the left loss
TotalLossUnweighted(c, output_loss, left_loss, right_loss, reg_loss) ==
    output_loss + left_loss + c.beta2 * right_loss + reg_loss

\* loss_t
TotalLoss(c, output_loss, left_loss, right_loss, reg_loss) ==
    output_loss + c.beta1 * left_loss + c.beta2 * right_loss + reg_loss

\* every tensor of the graph evaluated for a batch of images: the forward
\* pass from input_pl
ForwardInput(c, emb, ew, dw, batch) ==
    LET pred == ReshapePred(build_encoder(c, ew, batch))
        cls == MiddleClasses(pred, emb)
        collected == Gather(emb, cls)
        dec == build_decoder(c, dw, FlatCollected(collected))
        output_loss == OutputLoss(c, batch, dec.logits)
        left_loss == CommitLoss(pred, collected)
        right_loss == CommitLoss(pred, collected)
        reg_loss == RegLoss(c, ew, dw)
    IN  [batch |-> batch, pred_embeds |-> pred, classes |-> cls, collected_embeds |-> collected,
         embeds |-> emb, logits |-> dec.logits, output |-> dec.output,
         output_loss |-> output_loss, left_loss |-> left_loss, right_loss |-> right_loss,
         reg_loss |-> reg_loss,
         loss |-> TotalLoss(c, output_loss, left_loss, right_loss, reg_loss)]

\* output_t when classes is fed: the gather and the decoder run on the fed
\* indices; the fed pred_embeds (zeros) reaches nothing output_t depends on
ForwardClasses(c, emb, dw, cls) ==
    build_decoder(c, dw, FlatCollected(Gather(emb, cls))).output

\* ------------------------------------------------ VQ_VAE: the gradients
\* derivative of layer j's activation at coordinate value v
ActPrime(layers, ws, v, j) ==
    IF layers[j].relu
    THEN (IF ws[j] * Through(layers, ws, v, j - 1) > 0 THEN 1 ELSE 0)
    ELSE 1

RECURSIVE DOutDIn(_, _, _, _, _)
\* derivative of the last layer's output with respect to the input of layer j.
\* The activations are the forward pass's tensors (computed from ws); the
\* kernels are read from the variables' buffers when the backward op runs (rd)
DOutDIn(layers, ws, rd, v, j) ==
    IF j > Len(layers) THEN 1
    ELSE rd[j] * ActPrime(layers, ws, v, j) * DOutDIn(layers, ws, rd, v, j + 1)

\* derivative of the last layer's output with respect to the kernel of layer j
DOutDW(layers, ws, rd, v, j) ==
    Through(layers, ws, v, j - 1) * ActPrime(layers, ws, v, j)
        * DOutDIn(layers, ws, rd, v, j + 1)

\* 4 * sigmoid'(v) rounded to the integer grid
SigmoidPrime4(v) == IF Abs(v) <= 1 THEN 1 ELSE 0

\* four times the derivative of one element of the output loss with respect
\* to the decoder's last layer output v, for target pixel z
DOutputLoss4(c, z, v) ==
    IF c.loss_type = "SIGMOID_CROSS_ENTROPY" THEN 4 * (Sigmoid(v) - z)
    ELSE IF c.loss_type = "L2" THEN 8 * (v - z)
    ELSE 2 * (Sigmoid(v) - z) * SigmoidPrime4(v)

\* the decoder's last layer output for every sample and pixel
DecoderRaw(c, dw, flat) ==
    LET layers == DecoderLayers(c)
    IN  Tensor2(Len(flat), FlatInputShape,
                LAMBDA b, i : Through(layers, dw, flat[b][i], Len(layers)))

\* one entry of tf.gradients(loss_t, decoder_vars), scaled by 4 * B * P: the
\* output loss through the decoder plus the kernel's own L2 penalty; drd is
\* what the backward ops read from the decoder's kernels
DecoderGrad(c, fwd, dw, drd, batch, j) ==
    LET B == Len(batch)
        layers == DecoderLayers(c)
        flat == FlatCollected(fwd.collected_embeds)
        raw == DecoderRaw(c, dw, flat)
    IN  Sum2(Tensor2(B, FlatInputShape, LAMBDA b, i :
                 DOutputLoss4(c, Pixel(batch[b], i), raw[b][i])
                   * DOutDW(layers, dw, drd, flat[b][i], j)), B, FlatInputShape)
        + 4 * B * FlatInputShape * c.weight_decay * dw[j]

\* tf.gradients(loss_t, decoder_vars)
DecoderGrads(c, fwd, dw, drd, batch) ==
    Tensor1(Len(dw), LAMBDA j : DecoderGrad(c, fwd, dw, drd, batch, j))

\* an entry of encoder_grads whose right loss is weighted with beta1
EncoderGradBeta1(c, fwd, ew, erd, dw, drd, batch, j) ==
    LET B == Len(batch)
        enc == EncoderLayers(c)
        dec == DecoderLayers(c)
        flat == FlatCollected(fwd.collected_embeds)
        predflat == FlatCollected(fwd.pred_embeds)
        raw == DecoderRaw(c, dw, flat)
        gradz == Tensor2(B, FlatInputShape, LAMBDA b, i :
                     DOutputLoss4(c, Pixel(batch[b], i), raw[b][i])
                       * DOutDIn(dec, dw, drd, flat[b][i], 1))
    IN  LatentSize * Sum2(Tensor2(B, FlatInputShape, LAMBDA b, i :
                 gradz[b][i] * DOutDW(enc, ew, erd, Pixel(batch[b], i), j)),
              B, FlatInputShape)
        + c.beta1 * FlatInputShape * 4 * Sum2(Tensor2(B, FlatInputShape, LAMBDA b, i :
                 2 * (predflat[b][i] - flat[b][i])
                   * DOutDW(enc, ew, erd, Pixel(batch[b], i), j)),
              B, FlatInputShape)

\* one entry of encoder_grads, scaled by 4 * B * P * L: grad_z (the gradient
\* of output_loss_t at collected_embeds) pushed through pred_embeds, plus
\* beta2 times the gradient of right_loss_t; erd and drd are what the backward
\* ops read from the encoder's and the decoder's kernels
EncoderGrad(c, fwd, ew, erd, dw, drd, batch, j) ==
    LET B == Len(batch)
        enc == EncoderLayers(c)
        dec == DecoderLayers(c)
        flat == FlatCollected(fwd.collected_embeds)
        predflat == FlatCollected(fwd.pred_embeds)
        raw == DecoderRaw(c, dw, flat)
        gradz == Tensor2(B, FlatInputShape, LAMBDA b, i :
                     DOutputLoss4(c, Pixel(batch[b], i), raw[b][i])
                       * DOutDIn(dec, dw, drd, flat[b][i], 1))
    IN  LatentSize * Sum2(Tensor2(B, FlatInputShape, LAMBDA b, i :
                 gradz[b][i] * DOutDW(enc, ew, erd, Pixel(batch[b], i), j)),
              B, FlatInputShape)
        + c.beta2 * FlatInputShape * 4 * Sum2(Tensor2(B, FlatInputShape, LAMBDA b, i :
                 2 * (predflat[b][i] - flat[b][i])
                   * DOutDW(enc, ew, erd, Pixel(batch[b], i), j)),
              B, FlatInputShape)

\* encoder_grads with the gradient of the encoder's L2 terms added (the
\* gradient of loss_t at the encoder's kernels), on the scale of EncoderGrad
EncoderGradsRegularized(c, fwd, ew, erd, dw, drd, batch) ==
    Tensor1(Len(ew), LAMBDA j :
        EncoderGrad(c, fwd, ew, erd, dw, drd, batch, j)
          + 4 * Len(batch) * FlatInputShape * LatentSize * c.weight_decay * ew[j])

\* encoder_grads
EncoderGrads(c, fwd, ew, erd, dw, drd, batch) ==
    Tensor1(Len(ew), LAMBDA j : EncoderGrad(c, fwd, ew, erd, dw, drd, batch, j))

\* codebook gradients of left_loss_t + right_loss_t with collected_embeds not
\* detached in the right loss (both terms have the same gradient)
EmbedGradsOfBoth(fwd, emb, batch) ==
    LET B == Len(batch)
    IN  Materialize([k \in Classes |-> Tensor1(EmbeddingSize, LAMBDA e :
            2 * Sum2(Tensor2(B, LatentSize, LAMBDA b, l :
                         IF fwd.classes[b][l] = k
                         THEN 2 * (emb[k][e] - fwd.pred_embeds[b][l][e])
                         ELSE 0), B, LatentSize))])

\* embed_grads: tf.gradients(left_loss_t, embeds), scaled by B * L
EmbedGrads(fwd, emb, batch) ==
    LET B == Len(batch)
    IN  Materialize([k \in Classes |-> Tensor1(EmbeddingSize, LAMBDA e :
            Sum2(Tensor2(B, LatentSize, LAMBDA b, l :
                     IF fwd.classes[b][l] = k
                     THEN 2 * (emb[k][e] - fwd.pred_embeds[b][l][e])
                     ELSE 0), B, LatentSize))])

\* a parameter that the optimizer moves twice with the same gradient
AdamStepTwice(w, g) == w - 2 * Sign(g)

\* one optimizer update of a parameter with gradient g (unit step against
\* the gradient's sign, the first-step behaviour of Adam)
AdamStep(w, g) == w - Sign(g)

\* The gradients are built with tf.gradients and handed to apply_gradients, so
\* nothing gates an ApplyAdam op behind the backward ops that read the same
\* kernel: the variables are reference variables, their read tensors alias
\* the buffers ApplyAdam writes in place, and the executor may run the two in
\* either order.  The model keeps the two extreme schedules: every read
\* before every update, and every update as soon as its gradient is there.
Schedules == {"reads_first", "applies_first"}

RECURSIVE DecoderApplied(_, _, _, _, _)
\* the decoder's kernels once ApplyAdam has run for the layers j and above,
\* every layer's gradient reading the kernels above it after their update
DecoderApplied(c, fwd, dw, batch, j) ==
    IF j > Len(dw) THEN dw
    ELSE LET above == DecoderApplied(c, fwd, dw, batch, j + 1)
         IN  [above EXCEPT ![j] = AdamStep(dw[j], DecoderGrad(c, fwd, dw, above, batch, j))]

RECURSIVE EncoderApplied(_, _, _, _, _, _, _)
\* the same for the encoder's kernels
EncoderApplied(c, fwd, ew, dw, drd, batch, j) ==
    IF j > Len(ew) THEN ew
    ELSE LET above == EncoderApplied(c, fwd, ew, dw, drd, batch, j + 1)
         IN  [above EXCEPT
                ![j] = AdamStep(ew[j], EncoderGrad(c, fwd, ew, above, dw, drd, batch, j))]

\* ------------------------------------------ VQ_VAE: the dataflow graph
\* The tensors and variables build_all creates, as the edges of a graph.  An
\* edge src -> dst says dst is computed from src; grad says whether
\* tf.gradients propagates from dst back to src.
Node(name, j) == [name |-> name, j |-> j]

Edge(src, dst, grad) == [src |-> src, dst |-> dst, grad |-> grad]

\* an operation with a gradient in its input x
Differentiable(x, y) == {Edge(x, y, TRUE)}

\* an edge that stop_gradient leaves open to gradients
PassGradient(x, y) == {Edge(x, y, TRUE)}

\* tf.stop_gradient(x), named y
StopGradient(x, y) == {Edge(x, y, FALSE)}

\* an operation without a gradient in its input x: tf.argmin, and the indices
\* argument of tf.gather
NoGradient(x, y) == {Edge(x, y, FALSE)}

\* a chain of layers from tensor first: layer j reads the previous tensor and
\* its kernel, which may carry a regularization term
LayerEdges(c, layers, first, xname, kname) ==
    UNION { Differentiable(IF j = 1 THEN first ELSE Node(xname, j - 1), Node(xname, j))
            \cup Differentiable(Node(kname, j), Node(xname, j))
            \cup (IF c.weight_decay = 0 THEN {}
                  ELSE Differentiable(Node(kname, j), Node("reg_loss_t", 0))) :
            j \in 1 .. Len(layers) }

input_pl == Node("input_pl", 0)

BuildPlaceholders == Differentiable(input_pl, Node("input_flat_t", 0))

BuildEncoderGraph(c) ==
    LayerEdges(c, EncoderLayers(c), input_pl, "encoder_x", "encoder_kernel")

BuildMiddleGraph(c) ==
    Differentiable(Node("encoder_x", Len(EncoderLayers(c))), Node("pred_embeds", 0))
    \cup Differentiable(Node("pred_embeds", 0), Node("diff", 0))
    \cup Differentiable(Node("embeds", 0), Node("diff", 0))
    \cup Differentiable(Node("diff", 0), Node("norm", 0))
    \cup NoGradient(Node("norm", 0), Node("classes", 0))
    \cup Differentiable(Node("embeds", 0), Node("collected_embeds", 0))
    \cup NoGradient(Node("classes", 0), Node("collected_embeds", 0))
    \cup Differentiable(Node("collected_embeds", 0), Node("flat_collected_embeds", 0))

BuildDecoderGraph(c) ==
    LET n == Len(DecoderLayers(c))
        last == IF n = 0 THEN Node("flat_collected_embeds", 0) ELSE Node("decoder_x", n)
    IN  LayerEdges(c, DecoderLayers(c), Node("flat_collected_embeds", 0),
                   "decoder_x", "decoder_kernel")
        \cup Differentiable(last, Node("logits_t", 0))
        \cup Differentiable(Node("logits_t", 0), Node("output_t", 0))
        \cup Differentiable(Node("logits_t", 0), Node("flat_logits_t", 0))

BuildTrainingGraph(c) ==
    Differentiable(Node("input_flat_t", 0), Node("full_output_loss_t", 0))
    \cup Differentiable(Node("flat_logits_t", 0), Node("full_output_loss_t", 0))
    \cup Differentiable(Node("full_output_loss_t", 0), Node("output_loss_t", 0))
    \cup StopGradient(Node("pred_embeds", 0), Node("stop_gradient_pred_embeds", 0))
    \cup Differentiable(Node("stop_gradient_pred_embeds", 0), Node("left_loss_t", 0))
    \cup Differentiable(Node("collected_embeds", 0), Node("left_loss_t", 0))
    \cup Differentiable(Node("pred_embeds", 0), Node("right_loss_t", 0))
    \cup StopGradient(Node("collected_embeds", 0), Node("stop_gradient_collected_embeds", 0))
    \cup Differentiable(Node("stop_gradient_collected_embeds", 0), Node("right_loss_t", 0))
    \cup Differentiable(Node("output_loss_t", 0), Node("loss_t", 0))
    \cup Differentiable(Node("left_loss_t", 0), Node("loss_t", 0))
    \cup Differentiable(Node("right_loss_t", 0), Node("loss_t", 0))
    \cup Differentiable(Node("reg_loss_t", 0), Node("loss_t", 0))

\* build_all: placeholders, network (encoder, middle, decoder), training
build_all(c) ==
    BuildPlaceholders \cup BuildEncoderGraph(c) \cup BuildMiddleGraph(c)
    \cup BuildDecoderGraph(c) \cup BuildTrainingGraph(c)

\* tf.get_collection(TRAINABLE_VARIABLES, scope)
encoder_vars(c) == {Node("encoder_kernel", j) : j \in 1 .. Len(EncoderLayers(c))}

decoder_vars(c) == {Node("decoder_kernel", j) : j \in 1 .. Len(DecoderLayers(c))}

embed_vars == {Node("embeds", 0)}

RECURSIVE BackProp(_, _)
\* the nodes gradients reach from the nodes in seen, going backwards over
\* the edges that carry a gradient
BackProp(graph, seen) ==
    LET more == {e.src : e \in {f \in graph : f.grad /\ f.dst \in seen}} \ seen
    IN  IF more = {} THEN seen ELSE BackProp(graph, seen \cup more)

\* the nodes that tf.gradients(ys, .) gives a gradient for
GradDep(graph, ys) == BackProp(graph, {ys})

\* -------------------------------------------------- SG_VAE: forward graph
\* Probabilities and samples are carried in units of 1/Unit: a one-hot vector
\* has one entry Unit and the others 0.
KLTypes == {"CATEGORICAL", "RELAXED"}

SGLossTypes == {"SIGMOID_CROSS_ENTROPY", "L2"}

LatentWidth == NumDistributions * NumClasses

\* the encoder's layers: every one has a ReLU; the dense layer that follows
\* them belongs to the middle
SG_EncoderLayers(c) ==
    Tensor1(Len(c.encoder_filters),
            LAMBDA j : [scope |-> "encoder", kind |-> "conv", idx |-> j, relu |-> TRUE])
    \o Tensor1(Len(c.encoder_neurons),
               LAMBDA j : [scope |-> "encoder", kind |-> "fc", idx |-> j, relu |-> TRUE])

SG_build_encoder(c, w, batch) ==
    LET layers == SG_EncoderLayers(c)
    IN  Tensor2(Len(batch), FlatInputShape,
                LAMBDA b, i : Through(layers, w, Pixel(batch[b], i), Len(layers)))

\* logits_reshaped_t: the middle dense layer (no activation), reshaped to
\* (batch, num_distributions, num_classes)
SG_Logits(mid, x) ==
    Tensor3(Len(x), NumDistributions, NumClasses,
            LAMBDA b, i, k : mid * x[b][(((i - 1) * NumClasses + k - 1) % FlatInputShape) + 1])

\* tf.ones_like(logits) / num_classes, also the value predict feeds for
\* probs_t: the same number for every class, on the integer grid
UniformLogits(n) == Tensor3(n, NumDistributions, NumClasses, LAMBDA b, i, k : 1 \div NumClasses)

\* the Gumbel noise and the categorical draw of random stream position r
Gumbel(r, b, i, k) == ((r + 1) * k + b + i) % (NumClasses + 1)

CatDraw(r, b, i) == ((r + b * i) % NumClasses) + 1

RECURSIVE MaxUpTo(_, _)
MaxUpTo(row, n) ==
    IF n = 1 THEN row[1]
    ELSE LET m == MaxUpTo(row, n - 1) IN IF row[n] > m THEN row[n] ELSE m

RECURSIVE MinUpTo(_, _)
MinUpTo(row, n) ==
    IF n = 1 THEN row[1]
    ELSE LET m == MinUpTo(row, n - 1) IN IF row[n] < m THEN row[n] ELSE m

RECURSIVE ArgMaxUpTo(_, _)
\* tf.argmax over positions 1..n: a later position wins only when strictly larger
ArgMaxUpTo(row, n) ==
    IF n = 1 THEN 1
    ELSE LET best == ArgMaxUpTo(row, n - 1)
         IN  IF row[n] > row[best] THEN n ELSE best

\* the sample of RelaxedOneHotCategorical(temperature, logits) for given noise:
\* softmax((logits + noise) / temperature) on the integer grid.  A score
\* below the largest gets the less the larger its gap to the largest score is
\* in units of the temperature, a score that ties with the largest gets an
\* equal share, and the first of the largest scores gets what is left of
\* Unit, so that the entries sum to Unit.
SoftMax(scores, temperature) ==
    LET top == MaxUpTo(scores, NumClasses)
        first == ArgMaxUpTo(scores, NumClasses)
        share == Tensor1(NumClasses, LAMBDA k :
                     IF k = first THEN 0
                     ELSE IF scores[k] = top THEN Unit \div NumClasses
                     ELSE (Unit \div NumClasses) \div (2 + ((top - scores[k]) \div temperature)))
    IN  Tensor1(NumClasses, LAMBDA k :
            IF k = first THEN Unit - SumTo(share, NumClasses) ELSE share[k])

\* tf.one_hot(k, num_classes) cast to float
OneHot(k) == Tensor1(NumClasses, LAMBDA j : IF j = k THEN Unit ELSE 0)

\* a selection that takes the branches the other way round
WhereFlipped(condition, x, y) == IF condition THEN y ELSE x

\* tf.where(condition, x, y) for a scalar condition
Where(condition, x, y) == IF condition THEN x ELSE y

\* tf.reshape(sample, (batch, num_distributions * num_classes))
FlattenSample(s) ==
    Tensor2(Len(s), LatentWidth,
            LAMBDA b, m : s[b][((m - 1) \div NumClasses) + 1][((m - 1) % NumClasses) + 1])

\* build_decoder: (logits_t, output_t) for a batch of flat samples
SG_build_decoder(c, w, flat) ==
    LET layers == DecoderLayers(c)
        x == Tensor2(Len(flat), FlatInputShape,
                     LAMBDA b, p : Through(layers, w, flat[b][((p - 1) % LatentWidth) + 1],
                                           Len(layers)))
    IN  IF c.loss_type = "SIGMOID_CROSS_ENTROPY"
        THEN [logits |-> x, output |-> Tensor2(Len(flat), FlatInputShape,
                                               LAMBDA b, p : Sigmoid(x[b][p]))]
        ELSE [logits |-> x, output |-> x]

\* kl_divergence(cat_dist, prior_cat_dist) for one distribution: closed form,
\* zero exactly when the logits are uniform; on the integer grid the spread
\* of the logits
CategoricalKL(row) == MaxUpTo(row, NumClasses) - MinUpTo(row, NumClasses)

\* RelaxedOneHotCategorical(temperature, logits).log_prob(y) on the integer
\* grid: grows with the logits of the classes y puts weight on
LogProb(row, y, temperature) ==
    SumTo(Tensor1(NumClasses, LAMBDA k : row[k] * y[k]), NumClasses)
    - temperature * MaxUpTo(row, NumClasses)

\* sg_dist.log_prob(sg_sample_t) - prior_sg_dist.log_prob(sg_sample_t)
RelaxedKL(row, prior, y, temperature) ==
    LogProb(row, y, temperature) - LogProb(prior, y, temperature)

\* build_middle and build_decoder evaluated for one session.run.  feeds holds
\* input (a batch, or << >> when probs_t is fed instead), probs (the value fed
\* for probs_t, or << >>), is_training, temperature and the position rng of
\* the random streams.  st is the value of the stop_gradient term of the
\* straight-through sample when it is held constant, << >> otherwise.
SG_Forward(c, w, feeds, st) ==
    LET logits == IF Len(feeds.probs) > 0 THEN feeds.probs
                  ELSE SG_Logits(w.mid, SG_build_encoder(c, w.enc, feeds.input))
        B == Len(logits)
        sg_relaxed == Tensor2(B, NumDistributions, LAMBDA b, i :
                         SoftMax(Tensor1(NumClasses, LAMBDA k :
                                     logits[b][i][k] + Gumbel(feeds.rng, b, i, k)),
                                 feeds.temperature))
        sg_sample_hard_t == Tensor2(B, NumDistributions, LAMBDA b, i :
                               OneHot(ArgMaxUpTo(sg_relaxed[b][i], NumClasses)))
        stopped == IF Len(st) > 0 THEN st
                   ELSE Tensor3(B, NumDistributions, NumClasses, LAMBDA b, i, k :
                            sg_sample_hard_t[b][i][k] - sg_relaxed[b][i][k])
        sg_sample_t == IF c.straight_through
                       THEN Tensor3(B, NumDistributions, NumClasses, LAMBDA b, i, k :
                                stopped[b][i][k] + sg_relaxed[b][i][k])
                       ELSE sg_relaxed
        cat_sample_t == Tensor2(B, NumDistributions, LAMBDA b, i :
                           OneHot(CatDraw(feeds.rng, b, i)))
        sample_t == Where(feeds.is_training, FlattenSample(sg_sample_t),
                          FlattenSample(cat_sample_t))
        dec == SG_build_decoder(c, w.dec, sample_t)
    IN  [feeds |-> feeds, probs_t |-> logits, sg_relaxed |-> sg_relaxed,
         sg_sample_hard_t |-> sg_sample_hard_t, stopped |-> stopped,
         sg_sample_t |-> sg_sample_t, cat_sample_t |-> cat_sample_t,
         sample_t |-> sample_t, logits_t |-> dec.logits, output_t |-> dec.output]

\* ------------------------------------------------------ SG_VAE: the losses
\* the estimator build_middle builds for kl_divergence_t
KLEstimator(c) ==
    IF c.kl_type = "CATEGORICAL" \/ c.straight_through THEN "categorical" ELSE "relaxed"

\* kl_divergence_t, one entry per sample and distribution
SG_KLDivergence(estimator, fwd) ==
    LET B == Len(fwd.probs_t)
        prior == UniformLogits(B)
    IN  Tensor2(B, NumDistributions, LAMBDA b, i :
            IF estimator = "categorical" THEN CategoricalKL(fwd.probs_t[b][i])
            ELSE RelaxedKL(fwd.probs_t[b][i], prior[b][i], fwd.sg_sample_t[b][i],
                           fwd.feeds.temperature))

\* kl_loss_t = reduce_mean(reduce_sum(kl_divergence_t, axis=1))
KLLoss(kl_divergence_t) ==
    LET B == Len(kl_divergence_t)
    IN  Mean(SumTo(Tensor1(B, LAMBDA b : SumTo(kl_divergence_t[b], NumDistributions)), B), B)

\* full_output_loss_t: per sample, the sum over the pixels
SG_FullOutputLoss(c, batch, logits) ==
    Tensor1(Len(batch), LAMBDA b :
        SumTo(Tensor1(FlatInputShape, LAMBDA p :
                 IF c.loss_type = "SIGMOID_CROSS_ENTROPY"
                 THEN SigmoidCrossEntropy(Pixel(batch[b], p), logits[b][p])
                 ELSE (Pixel(batch[b], p) - logits[b][p]) * (Pixel(batch[b], p) - logits[b][p])),
              FlatInputShape))

\* the regularization terms: encoder kernels, middle kernel, decoder kernels
SG_RegLosses(c, w) ==
    IF c.weight_decay = 0 THEN << >>
    ELSE Tensor1(Len(w.enc), LAMBDA j : WeightRegularizer(c.weight_decay, w.enc[j]))
         \o << WeightRegularizer(c.weight_decay, w.mid) >>
         \o Tensor1(Len(w.dec), LAMBDA j : WeightRegularizer(c.weight_decay, w.dec[j]))

\* a total loss that keeps the KL term whatever disable_kl_loss says
SG_TotalLossWithKL(c, output_loss, kl_loss, reg_loss) == output_loss + kl_loss + reg_loss

\* loss_t
SG_TotalLoss(c, output_loss, kl_loss, reg_loss) ==
    IF c.disable_kl_loss THEN output_loss + reg_loss
    ELSE output_loss + kl_loss + reg_loss

\* the tensors of build_training for a run that feeds input_pl
SG_Losses(c, estimator, w, fwd) ==
    LET batch == fwd.feeds.input
        full == SG_FullOutputLoss(c, batch, fwd.logits_t)
        output_loss == Mean(SumTo(full, Len(batch)), Len(batch))
        kl == SG_KLDivergence(estimator, fwd)
        kl_loss == KLLoss(kl)
        regs == SG_RegLosses(c, w)
        reg_loss == SumTo(regs, Len(regs))
    IN  [full_output_loss_t |-> full, output_loss_t |-> output_loss, kl_divergence_t |-> kl,
         kl_loss_t |-> kl_loss, reg_loss_t |-> reg_loss,
         loss_t |-> SG_TotalLoss(c, output_loss, kl_loss, reg_loss)]

\* the kernels with kernel j of one group moved by delta
Bump(w, group, j, delta) ==
    [enc |-> IF group = "enc" THEN [w.enc EXCEPT ![j] = @ + delta] ELSE w.enc,
     mid |-> IF group = "mid" THEN w.mid + delta ELSE w.mid,
     dec |-> IF group = "dec" THEN [w.dec EXCEPT ![j] = @ + delta] ELSE w.dec]

\* loss_t at other kernels, with the same feeds and noise and with the
\* stop_gradient term held at its value st
SG_LossAt(c, estimator, w, feeds, st) ==
    SG_Losses(c, estimator, w, SG_Forward(c, w, feeds, st)).loss_t

\* a gradient that also follows the hardening term of the straight-through
\* sample: the term is recomputed at the moved kernels
SG_GradThroughHard(c, estimator, w, feeds, st, loss, group, j) ==
    SG_LossAt(c, estimator, Bump(w, group, j, 1), feeds, << >>) - loss

\* the gradient of loss_t in one kernel, as the difference quotient of loss_t
\* between the kernels and the kernels with that one moved up by one
SG_Grad(c, estimator, w, feeds, st, loss, group, j) ==
    SG_LossAt(c, estimator, Bump(w, group, j, 1), feeds, st) - loss

\* one session.run of [step_op, loss_t, output_loss_t, kl_loss_t, reg_loss_t]:
\* the fetched values and the gradients of minimize(loss_t) are taken at the
\* kernels before the update
SG_StepOp(c, estimator, w, feeds) ==
    Bind(SG_Forward(c, w, feeds, << >>), LAMBDA fwd :
    Bind(IF c.straight_through THEN fwd.stopped ELSE << >>, LAMBDA st :
    Bind(SG_Losses(c, estimator, w, fwd), LAMBDA losses :
    Bind([enc |-> Tensor1(Len(w.enc), LAMBDA j :
                     SG_Grad(c, estimator, w, feeds, st, losses.loss_t, "enc", j)),
          mid |-> SG_Grad(c, estimator, w, feeds, st, losses.loss_t, "mid", 1),
          dec |-> Tensor1(Len(w.dec), LAMBDA j :
                     SG_Grad(c, estimator, w, feeds, st, losses.loss_t, "dec", j))],
         LAMBDA grads :
        [fwd |-> fwd,
         losses |-> losses,
         grads |-> grads,
         w |-> [enc |-> Tensor1(Len(w.enc), LAMBDA j : AdamStep(w.enc[j], grads.enc[j])),
                mid |-> AdamStep(w.mid, grads.mid),
                dec |-> Tensor1(Len(w.dec), LAMBDA j : AdamStep(w.dec[j], grads.dec[j]))]]))))

\* ------------------------------------------ AE and the VQ_VAE draft: graph
\* ae_conv.AE and vq_vae_custom.VQ_VAE build the same network: encoder, a
\* dense middle layer without activation, decoder, and a sigmoid output
\* whatever the loss type is.
AE_Forward(c, w, batch) ==
    LET x == SG_build_encoder(c, w.enc, batch)
        sample_t == Tensor2(Len(batch), FlatInputShape, LAMBDA b, i : w.mid * x[b][i])
        layers == DecoderLayers(c)
        logits_t == Tensor2(Len(batch), FlatInputShape,
                            LAMBDA b, p : Through(layers, w.dec, sample_t[b][p], Len(layers)))
    IN  [input |-> batch, sample_t |-> sample_t, logits_t |-> logits_t,
         output_t |-> Tensor2(Len(batch), FlatInputShape, LAMBDA b, p : Sigmoid(logits_t[b][p]))]

\* build_training: output loss (per-sample sum over the pixels, batch mean),
\* regularization loss and their sum
AE_Losses(c, w, fwd) ==
    LET full == SG_FullOutputLoss(c, fwd.input, fwd.logits_t)
        output_loss == Mean(SumTo(full, Len(fwd.input)), Len(fwd.input))
        regs == SG_RegLosses(c, w)
        reg_loss == SumTo(regs, Len(regs))
    IN  [output_loss_t |-> output_loss, reg_loss_t |-> reg_loss,
         loss_t |-> output_loss + reg_loss]

AE_LossAt(c, w, batch) == AE_Losses(c, w, AE_Forward(c, w, batch)).loss_t

\* the gradient of loss_t in one kernel, as the difference quotient of loss_t
\* between the kernels and the kernels with that one moved up by one
AE_Grad(c, w, batch, loss, group, j) == AE_LossAt(c, Bump(w, group, j, 1), batch) - loss

\* one session.run of [step_op, loss_t, output_loss_t, reg_loss_t]
AE_StepOp(c, w, batch) ==
    LET fwd == AE_Forward(c, w, batch)
        losses == AE_Losses(c, w, fwd)
        loss == losses.loss_t
    IN  [fwd |-> fwd,
         losses |-> losses,
         w |-> [enc |-> Tensor1(Len(w.enc), LAMBDA j :
                           AdamStep(w.enc[j], AE_Grad(c, w, batch, loss, "enc", j))),
                mid |-> AdamStep(w.mid, AE_Grad(c, w, batch, loss, "mid", 1)),
                dec |-> Tensor1(Len(w.dec), LAMBDA j :
                           AdamStep(w.dec[j], AE_Grad(c, w, batch, loss, "dec", j)))]]

\* ------------------------------------------------------- the model object
\* model: the class of the object ("none" before a constructor is called);
\* stage: "constructed" after __init__, "built" once the graph exists, "raised"
\* when __init__ or build_all raised; graph: how often the graph was built and
\* which KL estimator it holds; cfg: the constructor arguments; session: a
\* session is open; embeds, enc_w, mid_w, dec_w, global_step: the variables of
\* the graph; rng: position of the graph's random streams; num_train:
\* completed train calls; ret: the last call with its arguments and returned
\* value; run: the tensors evaluated by the session.run calls of the last
\* call; prev: the predict call a decode call directly follows
VARIABLES model, stage, graph, cfg, session, embeds, enc_w, mid_w, dec_w, global_step,
          rng, num_train, ret, run, prev, script

vqvars == << cfg, session, embeds, enc_w, dec_w, global_step, num_train, ret, run, prev >>

objvars == << model, stage, graph, mid_w, rng, script >>

\* constructor arguments the model is explored with (all pass the asserts of
\* __init__): layer lists, loss type, weight decay and the two betas
Layouts ==
    { [encoder_filters |-> << >>, encoder_neurons |-> << >>,
       decoder_neurons |-> << >>, decoder_filters |-> << 1 >>, weight_decay |-> 0],
      [encoder_filters |-> << 1 >>, encoder_neurons |-> << >>,
       decoder_neurons |-> << 1 >>, decoder_filters |-> << 1 >>, weight_decay |-> 1] }

\* Python's None, and a given value v, as the value of an optional argument
None == << >>

Given(v) == << v >>

\* learning_rate, lr_decay_val and lr_decay_steps by layout: a decay of 1/2
\* per step, with lr_decay_steps left out in the layout without weight decay
DecayArgs(lay) ==
    [learning_rate |-> 4, lr_decay_val |-> Given(<< 1, 2 >>),
     lr_decay_steps |-> IF lay.weight_decay = 0 THEN None ELSE Given(1)]

VQConfigs ==
    { [encoder_filters |-> lay.encoder_filters, encoder_neurons |-> lay.encoder_neurons,
       decoder_neurons |-> lay.decoder_neurons, decoder_filters |-> lay.decoder_filters,
       loss_type |-> lt, weight_decay |-> lay.weight_decay,
       beta1 |-> beta[1], beta2 |-> beta[2]] @@ DecayArgs(lay) :
         lay \in Layouts, lt \in LossTypes, beta \in {<< 2, 3 >>} }

\* initial value of kernel j and of the codebook for a random seed
\* (variance_scaling_initializer, truncated_normal_initializer)
KernelInit(seed, j) == 1 + ((seed + j) % 3)

EmbedInit(seed) ==
    [k \in Classes |-> Tensor1(EmbeddingSize, LAMBDA e : ((seed + 2 * k + e) % 3) - 1)]

NoRet == [op |-> "none", arg |-> << >>, value |-> << >>]

NoGraph == [builds |-> 0, kl_estimator |-> "none"]

\* no training script has reached its loop
NoScript == [at |-> "none"]

\* VQ_VAE.__init__ followed by build_all: the graph exists, no session yet
VQInit ==
    /\ model = "VQ_VAE"
    /\ stage = "built"
    /\ graph = [builds |-> 1, kl_estimator |-> "none"]
    /\ mid_w = 0
    /\ rng = 0
    /\ cfg \in VQConfigs
    /\ session = FALSE
    /\ embeds = << >>
    /\ enc_w = << >>
    /\ dec_w = << >>
    /\ global_step = 0
    /\ num_train = 0
    /\ ret = NoRet
    /\ run = << >>
    /\ prev = NoRet
    /\ script = NoScript

\* the layers in the "encoder" scope of a class
EncoderLayersOf(class, c) ==
    IF class = "VQ_VAE" THEN EncoderLayers(c) ELSE SG_EncoderLayers(c)

\* tf.global_variables_initializer: every variable of the graph gets its
\* initial value
InitVariables(seed) ==
    /\ embeds' = IF model \in {"VQ_VAE", "VQ_VAE_custom"} THEN EmbedInit(seed) ELSE << >>
    /\ enc_w' = [j \in 1 .. Len(EncoderLayersOf(model, cfg)) |-> KernelInit(seed, j)]
    /\ mid_w' = IF model = "VQ_VAE" THEN 0 ELSE KernelInit(seed + 2, 1)
    /\ dec_w' = [j \in 1 .. Len(DecoderLayers(cfg)) |-> KernelInit(seed + 1, j)]
    /\ global_step' = 0
    /\ rng' = seed

\* Model.start_session (VQ_VAE, SG_VAE, AE): a session is opened and every
\* variable initialised
start_session ==
    /\ model \in {"VQ_VAE", "SG_VAE", "AE"}
    /\ stage = "built"
    /\ ~session
    /\ \E seed \in 0 .. (MaxSeed - 1) : InitVariables(seed)
    /\ session' = TRUE
    /\ UNCHANGED << model, stage, graph, cfg, num_train, ret, run, prev, script >>

\* number of session.run calls of encode: int(np.ceil(N / batch_size))
\* the number of runs with the quotient rounded down (integer division)
NumStepsFloor(n, batch_size) == n \div batch_size

NumSteps(n, batch_size) == (n + batch_size - 1) \div batch_size

RECURSIVE EncodeRuns(_, _, _)
\* the tensors of the first n session.run calls of encode, one record per call
EncodeRuns(inputs, batch_size, n) ==
    IF n = 0 THEN << >>
    ELSE Append(EncodeRuns(inputs, batch_size, n - 1),
                LET batch == Slice(inputs, (n - 1) * batch_size, n * batch_size)
                    pred == ReshapePred(build_encoder(cfg, enc_w, batch))
                IN  [batch |-> batch, pred_embeds |-> pred, embeds |-> embeds,
                     classes |-> MiddleClasses(pred, embeds)])

RECURSIVE Concatenate(_, _)
\* np.concatenate(encodings, axis=0) of the first n runs
Concatenate(runs, n) ==
    IF n = 0 THEN << >> ELSE Concatenate(runs, n - 1) \o runs[n].classes

\* the inputs encode is called with: the data set, with and without its last
\* image
EncodeInputs == {Slice(Dataset, 0, n) : n \in {Len(Dataset) - 1, Len(Dataset)}}

encode ==
    /\ model = "VQ_VAE"
    /\ session
    /\ \E inputs \in EncodeInputs, batch_size \in 1 .. (MaxBatch + 1) :
       \E runs \in {EncodeRuns(inputs, batch_size, NumSteps(Len(inputs), batch_size))} :
          /\ run' = runs
          /\ ret' = [op |-> "encode", arg |-> << inputs, batch_size >>,
                     value |-> Concatenate(runs, Len(runs))]
    /\ prev' = NoRet
    /\ UNCHANGED << cfg, session, embeds, enc_w, dec_w, global_step, num_train >>
    /\ UNCHANGED objvars

\* class batches drawn with the upper end included
RandomClassesInclusive(num_samples) ==
    { [b \in 1 .. num_samples |-> [l \in Slots |-> (d * (l + 1) + b) % (NumEmbeddings + 1)]] :
        d \in 0 .. (MaxDraw - 1) }

\* np.random.randint(0, num_embeddings, size=(num_samples, latent_size)): the
\* batches of the random streams 0..MaxDraw-1, every entry below num_embeddings
RandomClasses(num_samples) ==
    { [b \in 1 .. num_samples |-> [l \in Slots |-> (d * (l + 1) + b) % NumEmbeddings]] :
        d \in 0 .. (MaxDraw - 1) }

\* np.zeros((n, latent_size, embedding_size)), the value fed for pred_embeds
ZeroPredEmbeds(n) == Tensor3(n, LatentSize, EmbeddingSize, LAMBDA b, l, e : 0)

\* predict's session.run(output_t, feed_dict={classes: classes, pred_embeds: zeros})
PredictRun(c, emb, dw, classes) ==
    [classes |-> classes, pred_embeds |-> ZeroPredEmbeds(Len(classes)), embeds |-> emb,
     output |-> ForwardClasses(c, emb, dw, classes)]

predict ==
    /\ model = "VQ_VAE"
    /\ session
    /\ \E num_samples \in 1 .. MaxPredict :
       \E classes \in RandomClasses(num_samples) :
       \E r \in {PredictRun(cfg, embeds, dec_w, classes)} :
          /\ ret' = [op |-> "predict", arg |-> << num_samples >>,
                     value |-> << r.output, classes >>]
          /\ run' = << r >>
    /\ prev' = NoRet
    /\ UNCHANGED << cfg, session, embeds, enc_w, dec_w, global_step, num_train >>
    /\ UNCHANGED objvars

\* a decode that feeds pred_embeds only, so that classes is computed from it
DecodeRunNoFeed(c, emb, dw, classes) ==
    LET zeros == ZeroPredEmbeds(Len(classes))
        computed == MiddleClasses(zeros, emb)
    IN  [classes |-> computed, pred_embeds |-> zeros, embeds |-> emb,
         output |-> ForwardClasses(c, emb, dw, computed)]

\* decode's session.run(output_t, feed_dict={classes: classes, pred_embeds: zeros})
DecodeRun(c, emb, dw, classes) ==
    [classes |-> classes, pred_embeds |-> ZeroPredEmbeds(Len(classes)), embeds |-> emb,
     output |-> ForwardClasses(c, emb, dw, classes)]

\* the class batches decode is called with: what the last predict returned,
\* or else any batch of one sample
DecodeInputs == IF ret.op = "predict" THEN {ret.value[2]} ELSE RandomClasses(1)

decode ==
    /\ model = "VQ_VAE"
    /\ session
    /\ \E classes \in DecodeInputs :
       \E r \in {DecodeRun(cfg, embeds, dec_w, classes)} :
          /\ ret' = [op |-> "decode", arg |-> << classes >>, value |-> r.output]
          /\ run' = << r >>
    /\ prev' = IF ret.op = "predict" THEN ret ELSE NoRet
    /\ UNCHANGED << cfg, session, embeds, enc_w, dec_w, global_step, num_train >>
    /\ UNCHANGED objvars

\* np.concatenate([e, np.reshape(p, (B * L, D))]): the codebook's rows followed
\* by the predicted embeddings of every sample and slot
LatentPoints(pred, emb) ==
    LET B == Len(pred)
    IN  Tensor1(NumEmbeddings + B * LatentSize, LAMBDA n :
           IF n <= NumEmbeddings THEN emb[n - 1]
           ELSE pred[((n - NumEmbeddings - 1) \div LatentSize) + 1]
                    [((n - NumEmbeddings - 1) % LatentSize) + 1])

\* show_latent_space's session.run([pred_embeds, embeds], feed_dict={input_pl: samples})
LatentRun(c, emb, ew, samples) ==
    Bind(ReshapePred(build_encoder(c, ew, samples)), LAMBDA pred :
        [pred_embeds |-> pred, embeds |-> emb, points |-> LatentPoints(pred, emb)])

\* a show_latent_space that keeps the array it plots as the codebook
show_latent_space_storing ==
    /\ model = "VQ_VAE"
    /\ session
    /\ \E samples \in EncodeInputs :
       \E r \in {LatentRun(cfg, embeds, enc_w, samples)} :
          /\ ret' = [op |-> "show_latent_space", arg |-> << samples >>, value |-> None]
          /\ run' = << r >>
          /\ embeds' = r.points
    /\ prev' = NoRet
    /\ UNCHANGED << cfg, session, enc_w, dec_w, global_step, num_train >>
    /\ UNCHANGED objvars

\* show_latent_space fetches the predicted embeddings and the codebook in one
\* run on all the samples, plots their projection and returns nothing
show_latent_space ==
    /\ model = "VQ_VAE"
    /\ session
    /\ \E samples \in EncodeInputs :
       \E r \in {LatentRun(cfg, embeds, enc_w, samples)} :
          /\ ret' = [op |-> "show_latent_space", arg |-> << samples >>, value |-> None]
          /\ run' = << r >>
    /\ prev' = NoRet
    /\ UNCHANGED << cfg, session, embeds, enc_w, dec_w, global_step, num_train >>
    /\ UNCHANGED objvars

\* the learning rate the optimizer is built with: tf.train.exponential_decay
\* (learning_rate * decay ^ (step / lr_decay_steps), on the integer grid) when
\* both decay arguments are given, learning_rate otherwise
LearningRate(c, step) ==
    IF c.lr_decay_val # None /\ c.lr_decay_steps # None
    THEN LET n == step \div c.lr_decay_steps[1]
         IN  (c.learning_rate * Pow(c.lr_decay_val[1][1], n)) \div Pow(c.lr_decay_val[1][2], n)
    ELSE c.learning_rate

\* step_op and the fetched tensors of one session.run on a batch, under one
\* schedule of the executor.  The forward pass precedes every update (each
\* gradient depends on it), and so do the reads of the codebook (its gradient
\* depends on the gather).  What is not ordered: the backward ops' reads of a
\* kernel against that kernel's ApplyAdam, and the read of the encoder's
\* kernels by reg_loss_t (no encoder gradient depends on reg_loss_t) against
\* the encoder's ApplyAdam.  apply_gradients updates the three groups in one
\* application.
StepOp(c, emb, ew, dw, batch, sched) ==
    Bind(ForwardInput(c, emb, ew, dw, batch), LAMBDA fwd :
    Bind(IF sched = "applies_first" THEN DecoderApplied(c, fwd, dw, batch, 1) ELSE dw,
         LAMBDA drd :
    Bind(IF sched = "applies_first" THEN EncoderApplied(c, fwd, ew, dw, drd, batch, 1) ELSE ew,
         LAMBDA erd :
    Bind([decoder |-> DecoderGrads(c, fwd, dw, drd, batch),
          encoder |-> EncoderGrads(c, fwd, ew, erd, dw, drd, batch),
          embed |-> EmbedGrads(fwd, emb, batch)], LAMBDA grads :
    Bind(RegLoss(c, erd, dw), LAMBDA reg_loss :
        [fwd |-> [fwd EXCEPT !.reg_loss = reg_loss,
                             !.loss = TotalLoss(c, fwd.output_loss, fwd.left_loss,
                                                fwd.right_loss, reg_loss)],
         grads |-> grads,
         dec_w |-> Tensor1(Len(dw), LAMBDA j : AdamStep(dw[j], grads.decoder[j])),
         enc_w |-> Tensor1(Len(ew), LAMBDA j : AdamStep(ew[j], grads.encoder[j])),
         embeds |-> [k \in Classes |->
                       Tensor1(EmbeddingSize,
                               LAMBDA e : AdamStep(emb[k][e], grads.embed[k][e]))]])))))

\* one session.run of [step_op, loss_t, output_loss_t, left_loss_t, reg_loss_t];
\* apply_gradients is given no global_step, so the counter stays as it is
train ==
    /\ model = "VQ_VAE"
    /\ session
    /\ num_train < MaxTrainSteps
    /\ \E batch_size \in BatchSizes :
       \E samples \in {EpochBatch(num_train, batch_size)} :
       \E sched \in Schedules :
       \E step \in {StepOp(cfg, embeds, enc_w, dec_w, samples, sched)} :
          /\ dec_w' = step.dec_w
          /\ enc_w' = step.enc_w
          /\ embeds' = step.embeds
          /\ run' = << step.fwd @@ [params |-> [embeds |-> embeds, enc_w |-> enc_w,
                                                dec_w |-> dec_w],
                                    grads |-> step.grads, global_step |-> global_step,
                                    learning_rate |-> LearningRate(cfg, global_step)] >>
          /\ ret' = [op |-> "train", arg |-> << samples >>,
                     value |-> << step.fwd.loss, step.fwd.output_loss,
                                  step.fwd.left_loss, step.fwd.reg_loss >>]
    /\ num_train' = num_train + 1
    /\ prev' = NoRet
    /\ UNCHANGED << cfg, session, global_step >>
    /\ UNCHANGED objvars

\* ------------------------------------------------------- the constructors
Ones(n) == [i \in 1 .. n |-> 1]

\* the layer arguments a constructor is called with: the layouts with filter
\* size and stride lists that are as long as the filter lists or one longer
LayerArgs ==
    { [encoder_filters |-> lay.encoder_filters,
       encoder_filter_sizes |-> Ones(Len(lay.encoder_filters) + d[1]),
       encoder_strides |-> Ones(Len(lay.encoder_filters) + d[2]),
       encoder_neurons |-> lay.encoder_neurons,
       decoder_neurons |-> lay.decoder_neurons,
       decoder_filters |-> lay.decoder_filters,
       decoder_filter_sizes |-> Ones(Len(lay.decoder_filters) + d[3]),
       decoder_strides |-> Ones(Len(lay.decoder_filters)),
       weight_decay |-> lay.weight_decay] :
         lay \in Layouts, d \in {<< 0, 0, 0 >>, << 1, 0, 0 >>, << 0, 1, 0 >>, << 0, 0, 1 >>} }

\* the members of a class's LossType
LossTypeOf(class) == IF class = "VQ_VAE" THEN LossTypes ELSE SGLossTypes

VQArgs ==
    { la @@ [loss_type |-> lt, beta1 |-> beta[1], beta2 |-> beta[2]] @@ DecayArgs(la) :
        la \in LayerArgs, lt \in LossTypes \cup {"NONE"}, beta \in {<< 2, 3 >>} }

\* SG_VAE is called with every kl_type, disable_kl_loss and straight_through;
\* the loss type is squared error where the KL loss is disabled
SGArgs ==
    { la @@ [loss_type |-> lt, kl_type |-> kl, disable_kl_loss |-> dk, straight_through |-> st] :
        la \in LayerArgs, lt \in {"SIGMOID_CROSS_ENTROPY"},
        kl \in KLTypes \cup {"NONE"}, dk \in {FALSE}, st \in BOOLEAN }
    \cup
    { la @@ [loss_type |-> lt, kl_type |-> kl, disable_kl_loss |-> dk, straight_through |-> st] :
        la \in LayerArgs, lt \in {"L2", "L2_WITH_SIGMOID"},
        kl \in KLTypes \cup {"NONE"}, dk \in {TRUE}, st \in BOOLEAN }

AEArgs ==
    { la @@ [loss_type |-> lt] : la \in LayerArgs, lt \in SGLossTypes \cup {"L2_WITH_SIGMOID"} }

\* the three assert statements at the head of every __init__
AssertsPass(class, args) ==
    /\ args.loss_type \in LossTypeOf(class)
    /\ Len(args.encoder_filters) = Len(args.encoder_filter_sizes)
    /\ Len(args.encoder_filter_sizes) = Len(args.encoder_strides)
    /\ Len(args.decoder_filters) = Len(args.decoder_filter_sizes)
    /\ Len(args.decoder_filter_sizes) = Len(args.decoder_strides)

\* the state before any constructor is called
NoObject ==
    /\ model = "none"
    /\ stage = "none"
    /\ graph = NoGraph
    /\ cfg = << >>
    /\ session = FALSE
    /\ embeds = << >>
    /\ enc_w = << >>
    /\ mid_w = 0
    /\ dec_w = << >>
    /\ global_step = 0
    /\ rng = 0
    /\ num_train = 0
    /\ ret = NoRet
    /\ run = << >>
    /\ prev = NoRet
    /\ script = NoScript

session_frame == UNCHANGED << session, embeds, enc_w, mid_w, dec_w, global_step, rng,
                             num_train, ret, run, prev, script >>

\* vq_vae_conv.VQ_VAE.__init__: the asserts, then the fields; no graph yet
VQ_init ==
    /\ model = "none"
    /\ \E args \in VQArgs :
          /\ cfg' = args
          /\ stage' = IF AssertsPass("VQ_VAE", args) THEN "constructed" ELSE "raised"
    /\ model' = "VQ_VAE"
    /\ UNCHANGED graph
    /\ session_frame

\* vq_vae_conv.VQ_VAE.build_all
VQ_build_all ==
    /\ model = "VQ_VAE"
    /\ stage = "constructed"
    /\ stage' = "built"
    /\ graph' = [builds |-> graph.builds + 1, kl_estimator |-> "none"]
    /\ UNCHANGED << model, cfg >>
    /\ session_frame

\* SG_VAE.__init__: the asserts, then the fields; no graph yet
SG_init ==
    /\ model = "none"
    /\ \E args \in SGArgs :
          /\ cfg' = args
          /\ stage' = IF AssertsPass("SG_VAE", args) THEN "constructed" ELSE "raised"
    /\ model' = "SG_VAE"
    /\ UNCHANGED graph
    /\ session_frame

\* tf.add_n(tf.get_collection(REGULARIZATION_LOSSES)) raises on an empty
\* collection, that is when no kernel has a regularization term
AddNRaises(c) == c.weight_decay = 0

\* SG_VAE.build_all: placeholders, network and training
SG_build_all ==
    /\ model = "SG_VAE"
    /\ stage = "constructed"
    /\ IF AddNRaises(cfg)
       THEN /\ stage' = "raised"
            /\ UNCHANGED graph
       ELSE /\ stage' = "built"
            /\ graph' = [builds |-> graph.builds + 1, kl_estimator |-> KLEstimator(cfg)]
    /\ UNCHANGED << model, cfg >>
    /\ session_frame

\* ae_conv.AE.__init__: the asserts, the fields, and the graph
AE_init ==
    /\ model = "none"
    /\ \E args \in AEArgs :
          /\ cfg' = args
          /\ IF AssertsPass("AE", args) /\ ~AddNRaises(args)
             THEN /\ stage' = "built"
                  /\ graph' = [builds |-> graph.builds + 1, kl_estimator |-> "none"]
             ELSE /\ stage' = "raised"
                  /\ UNCHANGED graph
    /\ model' = "AE"
    /\ session_frame

\* tf.losses.mean_squared_error has no parameter logits: the call in the
\* else branch of build_training raises
MeanSquaredErrorRaises(c) == c.loss_type # "SIGMOID_CROSS_ENTROPY"

\* the variable scope of the network in vq_vae_custom.VQ_VAE
MODEL_NAMESPACE == "model"

\* the variable scope of the losses and the optimizer
TRAINING_NAMESPACE == "training"

\* the codebook variable of vq_vae_custom.VQ_VAE, created before any scope is
\* opened
EmbeddingsVariable == [scope |-> << >>, name |-> "embeddings", index |-> 0]

\* the global variables of the graph vq_vae_custom.VQ_VAE builds: the
\* codebook, one kernel per layer under model/encoder, model/middle and
\* model/decoder, and the optimizer's two power accumulators
CustomGlobalVariables(c) ==
    {EmbeddingsVariable}
    \cup {[scope |-> << MODEL_NAMESPACE, "encoder" >>, name |-> "kernel", index |-> j] :
             j \in 1 .. Len(SG_EncoderLayers(c))}
    \cup {[scope |-> << MODEL_NAMESPACE, "middle" >>, name |-> "kernel", index |-> 1]}
    \cup {[scope |-> << MODEL_NAMESPACE, "decoder" >>, name |-> "kernel", index |-> j] :
             j \in 1 .. Len(DecoderLayers(c))}
    \cup {[scope |-> << TRAINING_NAMESPACE >>, name |-> n, index |-> 0] :
             n \in {"beta1_power", "beta2_power"}}

\* tf.train.Saver() without a var_list: every global variable
SaverVarListDefault(c) == CustomGlobalVariables(c)

\* the saver's var_list: the global variables whose name starts with the
\* model namespace
SaverVarList(c) ==
    {v \in CustomGlobalVariables(c) : Len(v.scope) > 0 /\ v.scope[1] = MODEL_NAMESPACE}

\* vq_vae_custom.VQ_VAE.__init__: the asserts, the fields, and the graph
custom_init ==
    /\ model = "none"
    /\ \E args \in AEArgs :
          /\ cfg' = args
          /\ IF /\ AssertsPass("VQ_VAE_custom", args)
                /\ ~MeanSquaredErrorRaises(args)
                /\ ~AddNRaises(args)
             THEN /\ stage' = "built"
                  /\ graph' = [builds |-> graph.builds + 1, kl_estimator |-> "none"]
             ELSE /\ stage' = "raised"
                  /\ UNCHANGED graph
    /\ model' = "VQ_VAE_custom"
    /\ session_frame

\* vq_vae_custom.VQ_VAE.start_session
custom_start_session ==
    /\ model = "VQ_VAE_custom"
    /\ stage = "built"
    /\ ~session
    /\ \E seed \in 0 .. (MaxSeed - 1) : InitVariables(seed)
    /\ session' = TRUE
    /\ UNCHANGED << model, stage, graph, cfg, num_train, ret, run, prev, script >>

\* --------------------------------------------------- SG_VAE: the operations
\* the kernels of the session
W == [enc |-> enc_w, mid |-> mid_w, dec |-> dec_w]

\* the temperatures train is called with
Temperatures == {1, 2}

\* the position of the random streams after n more session.run calls
Advance(r, n) == (r + n) % MaxStream

\* a feed_dict with is_training_pl fed True whatever the method asks for
FeedsTraining(input, probs, is_training, temperature, r) ==
    [input |-> input, probs |-> probs, is_training |-> TRUE,
     temperature |-> temperature, rng |-> r]

Feeds(input, probs, is_training, temperature, r) ==
    [input |-> input, probs |-> probs, is_training |-> is_training,
     temperature |-> temperature, rng |-> r]

RECURSIVE SG_EvalRuns(_, _, _)
\* the first n session.run calls of encode or get_log_likelihood over
\* inputs: is_training False, temperature 1.0
SG_EvalRuns(inputs, batch_size, n) ==
    IF n = 0 THEN << >>
    ELSE Append(SG_EvalRuns(inputs, batch_size, n - 1),
                LET batch == Slice(inputs, (n - 1) * batch_size, n * batch_size)
                    fwd == SG_Forward(cfg, W, Feeds(batch, << >>, FALSE, 1, Advance(rng, n - 1)),
                                      << >>)
                IN  fwd @@ [full_output_loss_t |-> SG_FullOutputLoss(cfg, batch, fwd.logits_t)])

RECURSIVE ConcatenateSamples(_, _)
\* np.concatenate(encodings, axis=0)
ConcatenateSamples(runs, n) ==
    IF n = 0 THEN << >> ELSE ConcatenateSamples(runs, n - 1) \o runs[n].sample_t

RECURSIVE ConcatenateLL(_, _)
\* - np.concatenate(lls, axis=0)
ConcatenateLL(runs, n) ==
    IF n = 0 THEN << >>
    ELSE ConcatenateLL(runs, n - 1)
         \o Tensor1(Len(runs[n].full_output_loss_t), LAMBDA b : 0 - runs[n].full_output_loss_t[b])

eval_frame == UNCHANGED << model, stage, graph, cfg, session, embeds, enc_w, mid_w, dec_w,
                          global_step, num_train, prev, script >>

SG_encode ==
    /\ model = "SG_VAE"
    /\ session
    /\ \E batch_size \in BatchSizes :
       \E runs \in {SG_EvalRuns(Dataset, batch_size, NumSteps(Len(Dataset), batch_size))} :
          /\ run' = runs
          /\ ret' = [op |-> "encode", arg |-> << Dataset, batch_size >>,
                     value |-> ConcatenateSamples(runs, Len(runs))]
          /\ rng' = Advance(rng, Len(runs))
    /\ eval_frame

\* get_log_likelihood is called with its default batch_size
DefaultBatchSize == 100

SG_get_log_likelihood ==
    /\ model = "SG_VAE"
    /\ session
    /\ \E batch_size \in {DefaultBatchSize} :
       \E runs \in {SG_EvalRuns(Dataset, batch_size, NumSteps(Len(Dataset), batch_size))} :
          /\ run' = runs
          /\ ret' = [op |-> "get_log_likelihood", arg |-> << Dataset, batch_size >>,
                     value |-> ConcatenateLL(runs, Len(runs))]
          /\ rng' = Advance(rng, Len(runs))
    /\ eval_frame

\* session.run(output_t) with probs_t fed uniform, is_training False
SG_predict ==
    /\ model = "SG_VAE"
    /\ session
    /\ \E num_samples \in 1 .. MaxPredict :
       \E fwd \in {SG_Forward(cfg, W, Feeds(<< >>, UniformLogits(num_samples), FALSE, 1, rng),
                              << >>)} :
          /\ run' = << fwd >>
          /\ ret' = [op |-> "predict", arg |-> << num_samples >>, value |-> fwd.output_t]
    /\ rng' = Advance(rng, 1)
    /\ eval_frame

\* one session.run of [step_op, loss_t, output_loss_t, kl_loss_t, reg_loss_t]
\* with is_training True and the caller's temperature
SG_train ==
    /\ model = "SG_VAE"
    /\ session
    /\ num_train < MaxSGTrainSteps
    /\ \E batch_size \in BatchSizes, temperature \in Temperatures :
       \E samples \in {EpochBatch(num_train, batch_size)} :
       \E step \in {SG_StepOp(cfg, graph.kl_estimator, W,
                              Feeds(samples, << >>, TRUE, temperature, rng))} :
          /\ enc_w' = step.w.enc
          /\ mid_w' = step.w.mid
          /\ dec_w' = step.w.dec
          /\ run' = << step.fwd @@ step.losses @@ [params |-> W, grads |-> step.grads] >>
          /\ ret' = [op |-> "train", arg |-> << samples, temperature >>,
                     value |-> << step.losses.loss_t, step.losses.output_loss_t,
                                  step.losses.kl_loss_t, step.losses.reg_loss_t >>]
    /\ rng' = Advance(rng, 1)
    /\ num_train' = num_train + 1
    /\ UNCHANGED << model, stage, graph, cfg, session, embeds, global_step, prev, script >>

\* ------------------------------------- AE and the VQ_VAE draft: operations
\* a return statement with a zero in the place of a structural loss
AE_ReturnedFour(losses) == << losses.loss_t, losses.output_loss_t, 0, losses.reg_loss_t >>

\* return loss, output_loss, reg_loss
AE_Returned(losses) == << losses.loss_t, losses.output_loss_t, losses.reg_loss_t >>

\* one session.run of [step_op, loss_t, output_loss_t, reg_loss_t] on samples
TrainThreeValuesOn(class, samples) ==
    /\ model = class
    /\ session
    /\ \E step \in {AE_StepOp(cfg, W, samples)} :
          /\ enc_w' = step.w.enc
          /\ mid_w' = step.w.mid
          /\ dec_w' = step.w.dec
          /\ run' = << step.fwd @@ step.losses >>
          /\ ret' = [op |-> "train", arg |-> << samples >>, value |-> AE_Returned(step.losses)]
    /\ num_train' = num_train + 1
    /\ UNCHANGED << model, stage, graph, cfg, session, embeds, global_step, rng, prev >>

\* a train call on a batch of the data set
TrainThreeValues(class) ==
    /\ num_train < MaxTrainSteps
    /\ \E batch_size \in BatchSizes :
          TrainThreeValuesOn(class, EpochBatch(num_train, batch_size))
    /\ UNCHANGED script

\* ae_conv.AE.train
AE_train == TrainThreeValues("AE")

\* ------------------------------------------- scripts: the training loop
\* np.mean of the k-th loss over the step losses collected in epoch_losses
EpochMean(epoch_losses, k) ==
    Mean(SumTo([i \in DOMAIN epoch_losses |-> epoch_losses[i][k]], Len(epoch_losses)),
         Len(epoch_losses))

\* losses[...].append(np.mean(epoch_losses[...])) for the three keys
EpochMeans(epoch_losses) == [k \in 1 .. 3 |-> EpochMean(epoch_losses, k)]

\* a record one step after the epoch boundary
RecordsAtOneLate(train_step, epoch_size) == train_step % epoch_size = 1 /\ train_step > 1

\* if epoch_step == 0 and train_step > 0
RecordsAt(train_step, epoch_size) == train_step % epoch_size = 0 /\ train_step > 0

\* ae_conv_mnist.main up to the loop: the session is open, batch_size,
\* epoch_size and args.num_training_steps are set and both dictionaries are
\* empty; train_step is the number of iterations made; returned is the history
\* of the values train returned, kept for the properties only
script_setup ==
    /\ model = "AE"
    /\ session
    /\ script = NoScript
    /\ \E batch_size \in BatchSizes, num_training_steps \in 0 .. MaxLoopSteps :
          script' = [at |-> "loop", batch_size |-> batch_size,
                     epoch_size |-> Len(Dataset) \div batch_size,
                     num_training_steps |-> num_training_steps,
                     train_step |-> 0, losses |-> << >>, epoch_losses |-> << >>,
                     returned |-> << >>]
    /\ UNCHANGED << vqvars, model, stage, graph, mid_w, rng >>

\* one iteration of the loop of ae_conv_mnist.main
script_step ==
    /\ script.at = "loop"
    /\ script.train_step < script.num_training_steps
    /\ LET train_step == script.train_step
           record == RecordsAt(train_step, script.epoch_size)
           losses == IF record THEN Append(script.losses, EpochMeans(script.epoch_losses))
                               ELSE script.losses
           epoch_losses == IF record THEN << >> ELSE script.epoch_losses
       IN  /\ TrainThreeValuesOn("AE", EpochBatch(train_step, script.batch_size))
           /\ script' = [script EXCEPT !.train_step = train_step + 1,
                                       !.losses = losses,
                                       !.epoch_losses = Append(epoch_losses, ret'.value),
                                       !.returned = Append(script.returned, ret'.value)]

\* vq_vae_custom.VQ_VAE.train
custom_train == TrainThreeValues("VQ_VAE_custom")

vars == << vqvars, objvars >>

\* a built VQ_VAE and its operations
Init == VQInit

Next == start_session \/ encode \/ predict \/ decode \/ show_latent_space \/ train

Spec == Init /\ [][Next]_vars

\* an AE trained by the loop of ae_conv_mnist.main
NextScript == AE_init \/ start_session \/ script_setup \/ script_step

SpecScript == NoObject /\ [][NextScript]_vars

\* ===================================================================== claims
\* squared Euclidean distance between two vectors of embedding_size entries
SqDist(p, q) == SumTo([e \in Dims |-> (p[e] - q[e]) * (p[e] - q[e])], EmbeddingSize)

\* the runs of the last call in which classes was computed by build_middle
QuantizerRuns == IF ret.op \in {"encode", "train"} THEN DOMAIN run ELSE {}

\* a slot of a quantizer run whose minimal distance is attained by two codebook rows
TiedSlot(r, b, l) ==
    \E k \in Classes :
        /\ k # r.classes[b][l]
        /\ SqDist(r.pred_embeds[b][l], r.embeds[k])
             = SqDist(r.pred_embeds[b][l], r.embeds[r.classes[b][l]])

WellShapedClasses(cls, n) ==
    /\ Len(cls) = n
    /\ \A b \in 1 .. n :
          /\ DOMAIN cls[b] = Slots
          /\ \A l \in Slots : cls[b][l] >= 0 /\ cls[b][l] < NumEmbeddings

\* C2: the indices returned by encode and the indices drawn by predict all lie
\* in [0, num_embeddings), with exactly latent_size indices for each sample,
\* so every index the gather reads is a row of the codebook.
C2_IndicesInRange ==
    /\ ret.op = "encode" => WellShapedClasses(ret.value, Len(ret.arg[1]))
    /\ ret.op = "predict" => WellShapedClasses(ret.value[2], ret.arg[1])
    /\ ret.op \in {"encode", "predict"} =>
          \A n \in DOMAIN run : \A b \in DOMAIN run[n].classes : \A l \in Slots :
              run[n].classes[b][l] \in DOMAIN run[n].embeds

\* C2 witness: a predict whose drawn indices include the largest row of the codebook
C2_Witness ==
    /\ ret.op = "predict"
    /\ \E b \in DOMAIN ret.value[2] : \E l \in Slots : ret.value[2][b][l] = NumEmbeddings - 1

\* C8: a decode of the classes returned by the directly preceding predict (no
\* train call in between) returns the outputs that predict returned.
C8_DecodeReproducesPredict ==
    (ret.op = "decode" /\ prev.op = "predict" /\ ret.arg[1] = prev.value[2])
        => ret.value = prev.value[1]

\* C8 witness: such a decode after training, of classes that are not what the
\* quantizer computes from the zero pred_embeds fed alongside
C8_Witness ==
    /\ ret.op = "decode"
    /\ prev.op = "predict"
    /\ ret.arg[1] = prev.value[2]
    /\ num_train > 0
    /\ ret.arg[1] # MiddleClasses(ZeroPredEmbeds(1), embeds)

\* C9: the total loss returned by train is output_loss + beta1 * left_loss +
\* beta2 * right_loss + regularization_loss of the same run, and the
\* regularization loss is 0 when no regularization term exists.
C9_TotalLoss ==
    ret.op = "train" =>
        /\ ret.value[1] = run[1].output_loss + cfg.beta1 * run[1].left_loss
                            + cfg.beta2 * run[1].right_loss + run[1].reg_loss
        /\ ret.value[2] = run[1].output_loss
        /\ ret.value[3] = run[1].left_loss
        /\ ret.value[4] = run[1].reg_loss
        /\ cfg.weight_decay = 0 => ret.value[4] = 0

\* C9 witness: a train call in which all four terms are positive
C9_Witness ==
    /\ ret.op = "train"
    /\ run[1].output_loss > 0
    /\ run[1].left_loss > 0
    /\ run[1].right_loss > 0
    /\ run[1].reg_loss > 0

\* the graph of the current model
G == build_all(cfg)

SGNext ==
    \/ SG_init
    \/ SG_build_all
    \/ start_session
    \/ SG_encode
    \/ SG_predict
    \/ SG_get_log_likelihood
    \/ SG_train

SpecSG == NoObject /\ [][SGNext]_vars

\* construction and training of every class
LibNext ==
    \/ VQ_init
    \/ VQ_build_all
    \/ SG_init
    \/ SG_build_all
    \/ AE_init
    \/ custom_init
    \/ start_session
    \/ custom_start_session
    \/ train
    \/ SG_train
    \/ AE_train
    \/ custom_train

SpecLib == NoObject /\ [][LibNext]_vars

\* ------------------------------------------------------ claims: C4 to C10
\* C4 as stated: every class's train returns exactly four values.
C4_FourValues == ret.op = "train" => Len(ret.value) = 4

\* C4: train of SG_VAE and of vq_vae_conv.VQ_VAE returns the four values
\* (total loss, output loss, structural loss, regularization loss), the
\* structural loss being the KL loss and the left loss; train of AE and of
\* vq_vae_custom.VQ_VAE returns the three values (total loss, output loss,
\* regularization loss).
C4_TrainReturn ==
    ret.op = "train" =>
        LET r == run[1]
        IN  IF model = "VQ_VAE"
            THEN ret.value = << r.loss, r.output_loss, r.left_loss, r.reg_loss >>
            ELSE IF model = "SG_VAE"
            THEN ret.value = << r.loss_t, r.output_loss_t, r.kl_loss_t, r.reg_loss_t >>
            ELSE /\ model \in {"AE", "VQ_VAE_custom"}
                 /\ Len(ret.value) = 3
                 /\ ret.value = << r.loss_t, r.output_loss_t, r.reg_loss_t >>

\* C4 witness: a train call of an AE has returned, with a positive output
\* loss and a positive regularization loss
C4_Witness ==
    /\ model = "AE"
    /\ ret.op = "train"
    /\ run[1].output_loss_t > 0
    /\ run[1].reg_loss_t > 0

IsOneHot(v) == \E k \in 1 .. NumClasses : v = OneHot(k)

EvalOps == {"encode", "predict", "get_log_likelihood"}

\* C5: in every session.run of a train call is_training is True and the
\* decoder input is the relaxed sample (with straight_through its hardened
\* value); in every session.run of encode, predict and get_log_likelihood
\* is_training is False and the decoder input is the one-hot categorical
\* sample; the graph of an SG_VAE with a session was built exactly once.
C5_DecoderInputSelection ==
    /\ (model = "SG_VAE" /\ session) => graph.builds = 1
    /\ model = "SG_VAE" =>
         \A n \in DOMAIN run :
             LET r == run[n]
             IN  /\ ret.op = "train" =>
                       /\ r.feeds.is_training
                       /\ r.sample_t = FlattenSample(r.sg_sample_t)
                       /\ r.sg_sample_t = IF cfg.straight_through THEN r.sg_sample_hard_t
                                          ELSE r.sg_relaxed
                 /\ ret.op \in EvalOps =>
                       /\ ~r.feeds.is_training
                       /\ r.sample_t = FlattenSample(r.cat_sample_t)
                       /\ \A b \in DOMAIN r.cat_sample_t :
                              \A i \in 1 .. NumDistributions : IsOneHot(r.cat_sample_t[b][i])

\* C5 witness: an encode call after a train call, in a run where the relaxed
\* sample and the categorical sample differ
C5_Witness ==
    /\ model = "SG_VAE"
    /\ ret.op = "encode"
    /\ num_train > 0
    /\ \E n \in DOMAIN run : run[n].sg_sample_t # run[n].cat_sample_t

\* C6 as stated: the graph holds one estimator, the categorical one whenever
\* straight_through is True or kl_type is CATEGORICAL, and the relaxed one
\* only when straight_through is False and kl_type is RELAXED.
C6_EstimatorSelection ==
    (model = "SG_VAE" /\ stage = "built") =>
        /\ graph.kl_estimator \in {"categorical", "relaxed"}
        /\ (cfg.straight_through \/ cfg.kl_type = "CATEGORICAL")
              => graph.kl_estimator = "categorical"
        /\ graph.kl_estimator = "relaxed"
              => (~cfg.straight_through /\ cfg.kl_type = "RELAXED")

\* the arguments meet the construction-time contract: lists of equal length,
\* a loss type of the class, and for SG_VAE a KL type of the class
ContractHolds(class, args) ==
    /\ Len(args.encoder_filters) = Len(args.encoder_filter_sizes)
    /\ Len(args.encoder_filters) = Len(args.encoder_strides)
    /\ Len(args.decoder_filters) = Len(args.decoder_filter_sizes)
    /\ Len(args.decoder_filters) = Len(args.decoder_strides)
    /\ args.loss_type \in LossTypeOf(class)
    /\ class = "SG_VAE" => args.kl_type \in KLTypes

\* C7 as stated: a constructor called with arguments that break the contract
\* raises, so that no graph is built and no train call runs.
C7_FailsAtConstruction ==
    (model # "none" /\ ~ContractHolds(model, cfg)) =>
        /\ stage = "raised"
        /\ graph.builds = 0
        /\ num_train = 0

\* C10: the total loss train returns is the minimised loss_t, which is
\* output loss + regularization loss, plus the KL loss unless disable_kl_loss
\* is set; the third value returned is the KL loss in both cases, and the KL
\* loss is the sum of all entries of kl_divergence_t (per sample, over the
\* distributions) divided by the batch size.
C10_TotalLoss ==
    (model = "SG_VAE" /\ ret.op = "train") =>
        LET r == run[1]
            B == Len(r.feeds.input)
        IN  /\ ret.value[1] = r.loss_t
            /\ r.loss_t = r.output_loss_t + r.reg_loss_t
                            + (IF cfg.disable_kl_loss THEN 0 ELSE r.kl_loss_t)
            /\ ret.value[2] = r.output_loss_t
            /\ ret.value[3] = r.kl_loss_t
            /\ ret.value[4] = r.reg_loss_t
            /\ r.kl_loss_t = Sum2(r.kl_divergence_t, B, NumDistributions) \div B

\* C10 witness: a train call on a batch of two or more samples of a model
\* with the KL loss disabled, whose KL loss is not zero
C10_Witness ==
    /\ model = "SG_VAE"
    /\ ret.op = "train"
    /\ cfg.disable_kl_loss
    /\ Len(ret.arg[1]) >= 2
    /\ run[1].kl_loss_t # 0

\* ----------------------------------------------------- claims: C11 to C20
\* the last call was a train call of an SG_VAE built with straight_through
StraightThroughTrain == model = "SG_VAE" /\ ret.op = "train" /\ cfg.straight_through

\* the forward pass of the last train call repeated with kernel j of a group
\* moved by one and the stop_gradient term held at its value
MovedForward(group, j) ==
    SG_Forward(cfg, Bump(run[1].params, group, j, 1), run[1].feeds, run[1].stopped)

\* the kernels of the encoder and the middle, which lie before the sample
KernelsBeforeSample ==
    {<< "enc", j >> : j \in DOMAIN run[1].params.enc} \cup {<< "mid", 1 >>}

\* C11: in a train call of an SG_VAE with straight_through the sample that
\* feeds the decoder is, for every sample and distribution, the one-hot vector
\* of the arg-max of the relaxed sample; moving a kernel moves the sample by
\* exactly what the relaxed sample moves (the hardening term is constant), and
\* the gradient train applies is the change of the loss under that move.
C11_StraightThrough ==
    StraightThroughTrain =>
        LET r == run[1]
            p == r.params
        IN  /\ \A b \in DOMAIN r.sg_sample_t : \A i \in 1 .. NumDistributions :
                 /\ r.sg_sample_t[b][i] = OneHot(ArgMaxUpTo(r.sg_relaxed[b][i], NumClasses))
                 /\ IsOneHot(r.sg_sample_t[b][i])
            /\ r.sample_t = FlattenSample(r.sg_sample_t)
            /\ \A g \in KernelsBeforeSample :
                 LET m == MovedForward(g[1], g[2])
                     applied == SG_Losses(cfg, graph.kl_estimator, Bump(p, g[1], g[2], 1), m).loss_t
                                  - r.loss_t
                 IN  /\ \A b \in DOMAIN r.sg_sample_t : \A i \in 1 .. NumDistributions :
                        \A k \in 1 .. NumClasses :
                          m.sg_sample_t[b][i][k] - r.sg_sample_t[b][i][k]
                            = m.sg_relaxed[b][i][k] - r.sg_relaxed[b][i][k]
                     /\ IF g[1] = "mid"
                        THEN r.grads.mid = applied /\ mid_w = AdamStep(p.mid, applied)
                        ELSE /\ r.grads.enc[g[2]] = applied
                             /\ enc_w[g[2]] = AdamStep(p.enc[g[2]], applied)

\* C11 witness: a straight-through train call whose relaxed sample is not
\* one-hot and moves with the middle kernel, and in which the loss changes
\* with that move of the sample
C11_Witness ==
    /\ StraightThroughTrain
    /\ \E b \in DOMAIN run[1].sg_relaxed : \E i \in 1 .. NumDistributions :
          ~IsOneHot(run[1].sg_relaxed[b][i])
    /\ MovedForward("mid", 1).sg_relaxed # run[1].sg_relaxed
    /\ MovedForward("mid", 1).logits_t # run[1].logits_t

\* the variables of a graph: the nodes nothing is computed from, except the
\* placeholder and reg_loss_t (a constant when no kernel is regularized)
GraphVariables(g) ==
    ({e.src : e \in g} \ {e.dst : e \in g}) \ {input_pl, Node("reg_loss_t", 0)}

\* the last call was a train call of the VQ_VAE
VQTrain == model = "VQ_VAE" /\ ret.op = "train"

\* C12: the decoder, encoder and codebook variable groups of apply_gradients
\* are pairwise disjoint and together are all the variables of the graph, and
\* a train call moves every kernel and every codebook entry by exactly one
\* optimizer update with the gradient of its own group: none is moved twice,
\* none is left out.
C12_SingleApplication ==
    /\ model = "VQ_VAE" =>
         /\ encoder_vars(cfg) \cap decoder_vars(cfg) = {}
         /\ encoder_vars(cfg) \cap embed_vars = {}
         /\ decoder_vars(cfg) \cap embed_vars = {}
         /\ encoder_vars(cfg) \cup decoder_vars(cfg) \cup embed_vars = GraphVariables(G)
    /\ VQTrain =>
         LET r == run[1]
             p == r.params
         IN  /\ DOMAIN r.grads.decoder = DOMAIN p.dec_w
             /\ DOMAIN r.grads.encoder = DOMAIN p.enc_w
             /\ DOMAIN r.grads.embed = DOMAIN p.embeds
             /\ \A j \in DOMAIN p.dec_w : dec_w[j] = p.dec_w[j] - Sign(r.grads.decoder[j])
             /\ \A j \in DOMAIN p.enc_w : enc_w[j] = p.enc_w[j] - Sign(r.grads.encoder[j])
             /\ \A k \in Classes : \A e \in Dims :
                    embeds[k][e] = p.embeds[k][e] - Sign(r.grads.embed[k][e])

\* C12 witness: a train call that moved a decoder kernel, an encoder kernel
\* and a codebook entry
C12_Witness ==
    /\ VQTrain
    /\ dec_w # run[1].params.dec_w
    /\ enc_w # run[1].params.enc_w
    /\ embeds # run[1].params.embeds

\* the codebook with entry e of row k moved by delta
MoveEmbed(emb, k, e, delta) == [emb EXCEPT ![k][e] = @ + delta]

\* left_loss_t before the mean is taken (the sum over samples and slots of
\* the squared distances), for the classes of a run and another codebook
LeftLossSum(r, emb) ==
    Sum2(Tensor2(Len(r.classes), LatentSize, LAMBDA b, l :
             SqDist(r.pred_embeds[b][l], emb[r.classes[b][l]])),
         Len(r.classes), LatentSize)

\* output_loss_t of a run for its classes and another codebook
OutputLossWith(r, emb) ==
    OutputLoss(cfg, r.batch,
               build_decoder(cfg, r.params.dec_w, FlatCollected(Gather(emb, r.classes))).logits)

\* C13: the gradient a train call applies to each codebook entry is the
\* derivative of left_loss alone (for a quadratic, half the difference of
\* its values one step up and one step down), and the entry moves by one
\* optimizer update with that gradient; output_loss, right_loss and the
\* regularization loss add nothing to it.
C13_CodebookGradient ==
    VQTrain =>
        LET r == run[1]
            p == r.params
        IN  \A k \in Classes : \A e \in Dims :
               /\ 2 * r.grads.embed[k][e]
                    = LeftLossSum(r, MoveEmbed(p.embeds, k, e, 1))
                        - LeftLossSum(r, MoveEmbed(p.embeds, k, e, 0 - 1))
               /\ embeds[k][e] = p.embeds[k][e] - Sign(r.grads.embed[k][e])

\* C13 witness: a train call in which left_loss falls when a codebook entry
\* is raised while output_loss grows when that entry is raised
C13_Witness ==
    /\ VQTrain
    /\ \E k \in Classes : \E e \in Dims :
          /\ run[1].grads.embed[k][e] < 0
          /\ OutputLossWith(run[1], MoveEmbed(run[1].params.embeds, k, e, 1))
               > OutputLossWith(run[1], run[1].params.embeds)

\* both decay arguments were given to the VQ_VAE
DecayGiven == cfg.lr_decay_val # None /\ cfg.lr_decay_steps # None

\* C14 as stated: with both decay arguments given the global step counts the
\* completed train calls and the k-th train call uses the learning rate
\* learning_rate * lr_decay_val ^ (k / lr_decay_steps); otherwise every train
\* call uses learning_rate.
C14_DecayFollowsSteps ==
    model = "VQ_VAE" =>
        /\ DecayGiven => global_step = num_train
        /\ VQTrain =>
             run[1].learning_rate
               = IF DecayGiven
                 THEN LET n == (num_train - 1) \div cfg.lr_decay_steps[1]
                      IN  (cfg.learning_rate * Pow(cfg.lr_decay_val[1][1], n))
                             \div Pow(cfg.lr_decay_val[1][2], n)
                 ELSE cfg.learning_rate

\* logits_t and output_t in the run record of a train call
RunLogits(r) == IF model = "VQ_VAE" THEN r.logits ELSE r.logits_t

RunOutput(r) == IF model = "VQ_VAE" THEN r.output ELSE r.output_t

\* C15 as stated: in every class the output of a train call's forward pass
\* is sigmoid(logits) for SIGMOID_CROSS_ENTROPY and the raw logits for L2;
\* for L2_WITH_SIGMOID the output and the tensor the squared error is taken
\* of are both the sigmoid of the decoder's last layer.
C15_OutputFollowsLossType ==
    ret.op = "train" =>
        LET r == run[1]
            lg == RunLogits(r)
            out == RunOutput(r)
        IN  /\ cfg.loss_type = "SIGMOID_CROSS_ENTROPY" =>
                 \A b \in DOMAIN out : \A i \in Pixels : out[b][i] = Sigmoid(lg[b][i])
            /\ cfg.loss_type = "L2" => out = lg
            /\ cfg.loss_type = "L2_WITH_SIGMOID" =>
                 LET raw == DecoderRaw(cfg, r.params.dec_w, FlatCollected(r.collected_embeds))
                 IN  /\ \A b \in DOMAIN out : \A i \in Pixels : out[b][i] = Sigmoid(raw[b][i])
                     /\ lg = out
                     /\ r.output_loss = OutputLoss(cfg, r.batch, out)

\* ---------------------------------------- decoders of every accepted shape
\* a layout whose decoder has dense layers only (decoder_filters, its filter
\* sizes and its strides are empty lists, which the asserts accept)
DenseDecoderLayout ==
    [encoder_filters |-> << >>, encoder_neurons |-> << >>,
     decoder_neurons |-> << 1 >>, decoder_filters |-> << >>, weight_decay |-> 0]

DecoderConfigs ==
    { [encoder_filters |-> lay.encoder_filters, encoder_neurons |-> lay.encoder_neurons,
       decoder_neurons |-> lay.decoder_neurons, decoder_filters |-> lay.decoder_filters,
       loss_type |-> lt, weight_decay |-> lay.weight_decay,
       beta1 |-> beta[1], beta2 |-> beta[2]] @@ DecayArgs(lay) :
         lay \in Layouts \cup {DenseDecoderLayout}, lt \in LossTypes, beta \in {<< 2, 3 >>} }

\* VQ_VAE.__init__ followed by build_all, for every decoder shape
DecoderInit ==
    /\ model = "VQ_VAE"
    /\ stage = "built"
    /\ graph = [builds |-> 1, kl_estimator |-> "none"]
    /\ mid_w = 0
    /\ rng = 0
    /\ cfg \in DecoderConfigs
    /\ session = FALSE
    /\ embeds = << >>
    /\ enc_w = << >>
    /\ dec_w = << >>
    /\ global_step = 0
    /\ num_train = 0
    /\ ret = NoRet
    /\ run = << >>
    /\ prev = NoRet
    /\ script = NoScript

DecoderNext == start_session \/ train \/ predict

SpecDecoder == DecoderInit /\ [][DecoderNext]_vars

\* C16 as stated: in every accepted configuration the last layer of the
\* decoder has no activation and every earlier layer has a ReLU, so that in
\* a train call logits_t before the output nonlinearity is the last kernel
\* times the value of the layer before it.
C16_LastLayerRaw ==
    model = "VQ_VAE" =>
        LET layers == DecoderLayers(cfg)
            n == Len(layers)
        IN  n > 0 =>
              /\ ~layers[n].relu
              /\ \A j \in 1 .. (n - 1) : layers[j].relu
              /\ VQTrain =>
                   LET flat == FlatCollected(run[1].collected_embeds)
                       w == run[1].params.dec_w
                       raw == DecoderRaw(cfg, w, flat)
                   IN  \A b \in DOMAIN flat : \A i \in Pixels :
                          raw[b][i] = w[n] * Through(layers, w, flat[b][i], n - 1)

\* C17: a VQ_VAE train call returns loss values, and applies gradients, that
\* are all computed at the parameters the call started from, and the new
\* parameters are one update of those by these gradients
C17_AtomicTrain ==
    VQTrain =>
        LET r == run[1]
            p == r.params
            fwd == ForwardInput(cfg, p.embeds, p.enc_w, p.dec_w, r.batch)
        IN  /\ ret.value = << fwd.loss, fwd.output_loss, fwd.left_loss, fwd.reg_loss >>
            /\ r.grads.decoder = DecoderGrads(cfg, fwd, p.dec_w, p.dec_w, r.batch)
            /\ r.grads.encoder
                 = EncoderGrads(cfg, fwd, p.enc_w, p.enc_w, p.dec_w, p.dec_w, r.batch)
            /\ r.grads.embed = EmbedGrads(fwd, p.embeds, r.batch)

\* the shape of a codebook
CodebookShape(emb) == << Cardinality(DOMAIN emb), {Len(emb[k]) : k \in DOMAIN emb} >>

\* C18: once the variables are initialised the codebook keeps its shape
\* (num_embeddings rows of embedding_size entries), and a step that changes
\* the codebook or a kernel is a train call: encode, decode, predict and
\* show_latent_space leave all of them as they were
C18_OnlyTrainChangesParameters ==
    [][session =>
          /\ CodebookShape(embeds) = << NumEmbeddings, {EmbeddingSize} >>
          /\ CodebookShape(embeds') = CodebookShape(embeds)
          /\ (embeds' # embeds \/ enc_w' # enc_w \/ dec_w' # dec_w)
                => (ret'.op = "train" /\ num_train' = num_train + 1)
          /\ (ret'.op \in {"encode", "decode", "predict", "show_latent_space"})
                => (embeds' = embeds /\ enc_w' = enc_w /\ dec_w' = dec_w)]_vars

\* C18 witness: show_latent_space has run on a codebook that training moved
C18_Witness ==
    /\ ret.op = "show_latent_space"
    /\ num_train > 0
    /\ run[1].embeds = embeds
    /\ Len(run[1].points) = NumEmbeddings + Len(ret.arg[1]) * LatentSize
    /\ embeds # EmbedInit(rng)

\* C19: in vq_vae_custom.VQ_VAE a train call returns loss_t = output_loss_t +
\* reg_loss_t and moves every kernel by one update with the gradient of that
\* one loss; no step of a started model changes the codebook variable, and
\* the saver's var_list does not hold it
C19_CodebookUnused ==
    [][(model = "VQ_VAE_custom" /\ session) =>
          /\ embeds' = embeds
          /\ EmbeddingsVariable \notin SaverVarList(cfg)
          /\ (num_train' = num_train + 1) =>
                LET r == run'[1]
                    batch == ret'.arg[1]
                IN  /\ r.loss_t = r.output_loss_t + r.reg_loss_t
                    /\ r.loss_t = AE_LossAt(cfg, W, batch)
                    /\ ret'.value = << r.loss_t, r.output_loss_t, r.reg_loss_t >>
                    /\ \A j \in DOMAIN enc_w :
                          enc_w'[j] = AdamStep(enc_w[j],
                                               AE_Grad(cfg, W, batch, r.loss_t, "enc", j))
                    /\ mid_w' = AdamStep(mid_w, AE_Grad(cfg, W, batch, r.loss_t, "mid", 1))
                    /\ \A j \in DOMAIN dec_w :
                          dec_w'[j] = AdamStep(dec_w[j],
                                               AE_Grad(cfg, W, batch, r.loss_t, "dec", j))]_vars

\* C19 witness: a train call of vq_vae_custom.VQ_VAE has moved a kernel, the
\* codebook is as it was initialised, and the saver holds the kernels
C19_Witness ==
    /\ model = "VQ_VAE_custom"
    /\ ret.op = "train"
    /\ embeds = EmbedInit(rng)
    /\ \E j \in DOMAIN dec_w : dec_w[j] # KernelInit(rng + 1, j)
    /\ SaverVarList(cfg) # {}

\* the temperatures an evaluation run is repeated with
OtherTemperatures == Temperatures \cup {3}

\* the run r of an evaluation method repeated with temperature t fed, on the
\* same inputs, parameters and random draws
EvalRunAt(r, t) ==
    Bind(SG_Forward(cfg, W, [r.feeds EXCEPT !.temperature = t], << >>), LAMBDA fwd :
        fwd @@ [full_output_loss_t |-> IF ret.op = "predict" THEN << >>
                                       ELSE SG_FullOutputLoss(cfg, r.feeds.input, fwd.logits_t)])

\* what the last evaluation method returns when its runs are fed temperature t
ReturnedAt(t) ==
    Bind([n \in DOMAIN run |-> EvalRunAt(run[n], t)], LAMBDA runs :
        IF ret.op = "encode" THEN ConcatenateSamples(runs, Len(runs))
        ELSE IF ret.op = "predict" THEN runs[1].output_t
        ELSE ConcatenateLL(runs, Len(runs)))

\* C20: what encode, predict and get_log_likelihood of SG_VAE return does not
\* depend on the temperature fed: repeating the runs with any other
\* temperature, on the same inputs, parameters and random draws, returns the
\* same values
C20_TemperatureIrrelevant ==
    (model = "SG_VAE" /\ ret.op \in EvalOps) =>
        \A t \in OtherTemperatures : ReturnedAt(t) = ret.value

\* C20 witness: an evaluation call after training in which another temperature
\* gives a different relaxed sample
C20_Witness ==
    /\ model = "SG_VAE"
    /\ ret.op \in EvalOps
    /\ num_train > 0
    /\ \E t \in OtherTemperatures :
          /\ EvalRunAt(run[1], t).sg_relaxed # run[1].sg_relaxed
          /\ ReturnedAt(t) = ret.value

\* ------------------------------------------------- claims: C21 to C24
\* C21: encode on N inputs with batch size b makes ceil(N / b) runs; run n is
\* fed the inputs (n - 1) * b + 1 .. min(n * b, N) in order, which is
\* between 1 and b inputs, and the value returned holds the N encodings in
\* input order
C21_EncodeBatching ==
    (model = "VQ_VAE" /\ ret.op = "encode") =>
        LET inputs == ret.arg[1]
            b == ret.arg[2]
            N == Len(inputs)
        IN  /\ Len(run) * b >= N
            /\ (Len(run) - 1) * b < N
            /\ \A n \in DOMAIN run :
                  /\ Len(run[n].batch) \in 1 .. b
                  /\ Len(run[n].batch) = (IF n * b < N THEN b ELSE N - (n - 1) * b)
                  /\ Len(run[n].classes) = Len(run[n].batch)
                  /\ \A i \in DOMAIN run[n].batch :
                        /\ run[n].batch[i] = inputs[(n - 1) * b + i]
                        /\ ret.value[(n - 1) * b + i] = run[n].classes[i]
            /\ Len(ret.value) = N

\* C21 witness: an encode call whose batch size does not divide the number of
\* inputs: several runs, the last one on fewer inputs than the batch size
C21_Witness ==
    /\ model = "VQ_VAE"
    /\ ret.op = "encode"
    /\ Len(ret.arg[1]) % ret.arg[2] # 0
    /\ Len(run) > 1
    /\ Len(run[Len(run)].batch) < ret.arg[2]
    /\ Len(ret.value) = Len(ret.arg[1])

\* C22: in the training loop with epoch_size >= 1, after T >= 1 iterations
\* exactly floor((T - 1) / epoch_size) epoch means are recorded (none before
\* the first iteration), the k-th of them is the mean of the epoch_size step
\* losses returned by the iterations (k - 1) * epoch_size + 1 .. k * epoch_size,
\* the losses of the iterations after the last record, a complete final
\* epoch included, are held unrecorded in epoch_losses, and every batch
\* passed to train has exactly batch_size samples
C22_EpochMeans ==
    script.at = "loop" =>
        LET T == script.train_step
            e == script.epoch_size
            R == Len(script.losses)
        IN  /\ e >= 1
            /\ R = (IF T = 0 THEN 0 ELSE (T - 1) \div e)
            /\ Len(script.returned) = T
            /\ \A k \in 1 .. R :
                  script.losses[k] = EpochMeans(SubSeq(script.returned, (k - 1) * e + 1, k * e))
            /\ script.epoch_losses = SubSeq(script.returned, R * e + 1, T)
            /\ T > 0 => (Len(script.epoch_losses) \in 1 .. e
                          /\ ret.op = "train"
                          /\ Len(ret.arg[1]) = script.batch_size)

\* the loop ends on a complete epoch of several steps whose losses are left
\* unrecorded, after at least one epoch mean was recorded
C22_Witness ==
    /\ script.at = "loop"
    /\ script.train_step = script.num_training_steps
    /\ script.epoch_size > 1
    /\ Len(script.losses) >= 1
    /\ Len(script.epoch_losses) = script.epoch_size
    /\ script.train_step = (Len(script.losses) + 1) * script.epoch_size

\* the values of beta1 a second model is given
OtherBeta1 == {0, 1, 5}

\* the parameters after the step and the three losses train returns besides
\* the total
StepOutcome(step) ==
    [dec_w |-> step.dec_w, enc_w |-> step.enc_w, embeds |-> step.embeds,
     losses |-> << step.fwd.output_loss, step.fwd.left_loss, step.fwd.reg_loss >>]

\* C23: a VQ_VAE that differs from the trained one only in beta1, run on the
\* same parameters and batch under the same order of the step's ops, ends
\* the train call with the same decoder, encoder and codebook parameters and
\* returns the same output_loss, left_loss and regularization_loss
C23_Beta1OnlyInTotal ==
    VQTrain =>
        LET r == run[1]
            p == r.params
            now == [dec_w |-> dec_w, enc_w |-> enc_w, embeds |-> embeds,
                    losses |-> << ret.value[2], ret.value[3], ret.value[4] >>]
        IN  /\ \E sched \in Schedules :
                  StepOutcome(StepOp(cfg, p.embeds, p.enc_w, p.dec_w, r.batch, sched)) = now
            /\ \A beta1 \in OtherBeta1 : \A sched \in Schedules :
                  LET other == [cfg EXCEPT !.beta1 = beta1]
                  IN  StepOutcome(StepOp(cfg, p.embeds, p.enc_w, p.dec_w, r.batch, sched)) = now
                        => StepOutcome(StepOp(other, p.embeds, p.enc_w, p.dec_w, r.batch, sched))
                             = now

\* a train call that moved the codebook and whose total loss is another one
\* under each of the other values of beta1
C23_Witness ==
    /\ VQTrain
    /\ embeds # run[1].params.embeds
    /\ enc_w # run[1].params.enc_w
    /\ \A beta1 \in OtherBeta1 :
          TotalLoss([cfg EXCEPT !.beta1 = beta1], ret.value[2], ret.value[3],
                    run[1].right_loss, ret.value[4]) # ret.value[1]

\* the sum of the L2 terms of the kernels w
RegTerms(c, w) == SumTo(Tensor1(Len(w), LAMBDA j : WeightRegularizer(c.weight_decay, w[j])), Len(w))

\* C24: in a train call of a VQ_VAE with weight decay, the returned
\* regularization loss is the sum of the L2 terms of the encoder's and of the
\* decoder's kernels and is part of the returned total; the gradient applied
\* to every encoder kernel is the one computed without any weight decay (the
\* output-loss gradient copied through the quantizer plus beta2 times the
\* right-loss gradient), while the gradient applied to every decoder kernel
\* is the one without weight decay plus the gradient of that kernel's L2 term
C24_EncoderRegularizationUnapplied ==
    (VQTrain /\ cfg.weight_decay > 0) =>
        LET r == run[1]
            p == r.params
            B == Len(r.batch)
            plain == [cfg EXCEPT !.weight_decay = 0]
            fwd == ForwardInput(cfg, p.embeds, p.enc_w, p.dec_w, r.batch)
        IN  \E sched \in Schedules :
               LET drd == IF sched = "applies_first"
                          THEN DecoderApplied(cfg, fwd, p.dec_w, r.batch, 1) ELSE p.dec_w
                   erd == IF sched = "applies_first"
                          THEN EncoderApplied(cfg, fwd, p.enc_w, p.dec_w, drd, r.batch, 1)
                          ELSE p.enc_w
               IN  /\ ret.value[4] = RegTerms(cfg, erd) + RegTerms(cfg, p.dec_w)
                   /\ ret.value[1] = TotalLoss(cfg, ret.value[2], ret.value[3], r.right_loss,
                                               ret.value[4])
                   /\ r.grads.encoder
                        = EncoderGrads(plain, fwd, p.enc_w, erd, p.dec_w, drd, r.batch)
                   /\ \A j \in DOMAIN p.enc_w :
                         enc_w[j] = AdamStep(p.enc_w[j], r.grads.encoder[j])
                   /\ \A j \in DOMAIN p.dec_w :
                         /\ r.grads.decoder[j]
                              = DecoderGrad(plain, fwd, p.dec_w, drd, r.batch, j)
                                  + 4 * B * FlatInputShape * cfg.weight_decay * p.dec_w[j]
                         /\ dec_w[j] = AdamStep(p.dec_w[j], r.grads.decoder[j])

\* a train call with weight decay in which the encoder's L2 terms are part
\* of the returned regularization loss, an encoder kernel is not zero (the
\* gradient of its L2 term is not zero) and a decoder kernel is not zero
C24_Witness ==
    /\ VQTrain
    /\ cfg.weight_decay > 0
    /\ ret.value[4] > RegTerms(cfg, run[1].params.dec_w)
    /\ \E j \in DOMAIN enc_w : run[1].params.enc_w[j] # 0
    /\ \E j \in DOMAIN dec_w : run[1].params.dec_w[j] # 0

====
